---- MODULE Spec2Model ----
(***************************************************************************)
(* A model of cargo2nix's standalone fixpoint activation resolver          *)
(* (src/src/resolve.rs, `resolve`): the platform conversion, the request   *)
(* queue, the EnablePackage and EnableFeature handlers and the response;   *)
(* and of the condition engine of the generator (src/src/main.rs,          *)
(* `generate_cargo_nix`): mark_required, activate, simplify_optionality    *)
(* and the rendering of the conditions.                                    *)
(***************************************************************************)
EXTENDS Naturals, Sequences, FiniteSets, TLC

VARIABLES
    pc,                 \* "start" | "loop" | "done": position in `resolve`
    request,            \* the ResolveRequest (read-only input)
    build_platform,     \* Platform::try_from(req.build_platform)
    host_platform,      \* Platform::try_from(req.host_platform)
    may_depending_on,   \* PackageId -> (toml name -> PackageId)
    req_queue,          \* VecDeque<ModifyRequest>
    cur,                \* the request popped by `while let Some(req)`
    depending_on_state, \* DependingOnState: three maps PackageId -> DependingOn
    features_enabled,   \* FeatureMap
    result,             \* "none" | "ok" | "parse_error" | "panic"
    response,           \* the ResolveResponse once result = "ok"
    spawned,            \* history: EnablePackage requests pushed for a new edge
    handled,            \* history: the requests the loop body has run on
    epc,                \* position in `generate_cargo_nix`, "off" outside it
    root_pkgs,          \* ws.members(): the names of the root packages
    root_i,             \* index of the root the per-root loop is at
    feature_i,          \* features of that root activated so far
    rpkgs_by_id,        \* PackageId -> ResolvedPackage (deps, features)
    rendered,           \* the condition of every item once rendered
    marked,             \* history: <<root, unit>> touched by mark_required
    touched,            \* history: the pass run last and the units it touched
    activated,          \* history: <<root, feature, unit>> touched by activate
    ppc,                \* position in a conversion of an OS value, or "off"
    os_input,           \* the OS name or the raw descriptor to convert
    os_value,           \* the Os converted from it
    os_display,         \* the text Display writes for os_value
    enum_input,         \* the enumeration and the raw string to parse
    enum_value,         \* the value From makes of the raw string
    enum_display,       \* the text Display writes for enum_value
    cfg_input,          \* a target-block key, a raw platform and a feature list
    cfg_result,         \* whether the key parsed and what its predicate tested
    de_input,           \* a JSON object to deserialize as a RawPlatform
    de_result,          \* the Result of deserializing it
    wpc,                \* position in `write_to_file`, "off" outside it
    tool_version,       \* version(): the version of the running tool
    old_file,           \* the file at `path` when write_to_file was called
    target_file,        \* the file at `path` now
    line,               \* what read_line appended to `line`
    temp_file,          \* the content of the temporary file, "none" before it
    prompted,           \* history: the overwrite question was printed
    generated,          \* history: generate_cargo_nix was called
    write_result        \* "none" | "Ok" | the error write_to_file returned

\* the locals of `resolve`
resolve_vars ==
    <<pc, request, build_platform, host_platform, may_depending_on,
      req_queue, cur, depending_on_state, features_enabled, result,
      response, spawned, handled>>

\* the locals of `generate_cargo_nix`
engine_vars ==
    <<epc, root_pkgs, root_i, feature_i, rpkgs_by_id, rendered, marked, touched,
      activated>>

\* the values of a conversion of an OS value or of a platform enumeration
os_vars == <<os_input, os_value, os_display>>

enum_vars == <<enum_input, enum_value, enum_display>>

cfg_vars == <<cfg_input, cfg_result>>

de_vars == <<de_input, de_result>>

\* the locals of `write_to_file` and the file system it acts on
write_vars ==
    <<wpc, tool_version, old_file, target_file, line, temp_file, prompted,
      generated, write_result>>

platform_vars == <<ppc, os_vars, enum_vars, cfg_vars, de_vars, write_vars>>

vars == <<resolve_vars, engine_vars, platform_vars>>

(***************************************************************************)
(* Bounds of the model.                                                    *)
(***************************************************************************)
\* longest feature list of an initial request
MaxFeatures == 2
\* cap on the queue length (never binding for the inputs below)
MaxQueue == 40
\* longest run of the loop that RunLoop follows to its end
MaxSteps == 60

(***************************************************************************)
(* TargetPlatform                                                          *)
(***************************************************************************)
TargetPlatform == {"Host", "Build"}

\* mutant: to_build leaves the role as it is
to_build_identity(target) == target

to_build(target) == "Build"

\* mutant: to_host resets the role to Host
to_host_const(target) == "Host"

to_host(target) == target

\* mutant: the role is handed on as it is, whichever function was passed
target_shift_ignored(shift, target) == target

\* the `target_shift` argument of enable_dep / try_enable_dep
target_shift(shift, target) ==
    IF shift = "to_build" THEN to_build(target) ELSE to_host(target)

(***************************************************************************)
(* Os bit flags: a value is the set of the bits that are set (bit 0 is the *)
(* least significant bit of the u16).                                      *)
(***************************************************************************)
OsLINUX   == {0, 8}
OsWINDOWS == {1}
OsANDROID == {0, 2, 8}
OsIOS     == {3, 8}
OsFREEBSD == {4, 8}
OsNETBSD  == {5, 8}
OsOPENBSD == {6, 8}
OsMACOS   == {7, 8}
OsUNIX    == {8}
OsOTHER   == {9}

OsContains(os, flags) == flags \subseteq os

(***************************************************************************)
(* Raw platform descriptors and Platform::try_from.                        *)
(***************************************************************************)
NoneValue == [kind |-> "None"]

Some(v) == [kind |-> "Some", value |-> v]

RawLinux ==
    [config |-> "x86_64-unknown-linux-gnu", is32bit |-> FALSE, is64bit |-> TRUE,
     is_android |-> FALSE, is_big_endian |-> FALSE, is_freebsd |-> FALSE,
     is_ios |-> FALSE, is_linux |-> TRUE, is_little_endian |-> TRUE,
     is_macos |-> FALSE, is_netbsd |-> FALSE, is_openbsd |-> FALSE,
     is_unix |-> TRUE, is_windows |-> FALSE, libc |-> "glibc",
     cpu |-> "x86_64", vendor |-> "unknown"]

RawWindows ==
    [config |-> "x86_64-pc-windows-msvc", is32bit |-> FALSE, is64bit |-> TRUE,
     is_android |-> FALSE, is_big_endian |-> FALSE, is_freebsd |-> FALSE,
     is_ios |-> FALSE, is_linux |-> FALSE, is_little_endian |-> TRUE,
     is_macos |-> FALSE, is_netbsd |-> FALSE, is_openbsd |-> FALSE,
     is_unix |-> FALSE, is_windows |-> TRUE, libc |-> "msvcrt",
     cpu |-> "x86_64", vendor |-> "pc"]

\* a descriptor whose flags name no known OS, width, endianness or libc
RawOdd ==
    [config |-> "", is32bit |-> FALSE, is64bit |-> FALSE,
     is_android |-> FALSE, is_big_endian |-> FALSE, is_freebsd |-> FALSE,
     is_ios |-> FALSE, is_linux |-> FALSE, is_little_endian |-> FALSE,
     is_macos |-> FALSE, is_netbsd |-> FALSE, is_openbsd |-> FALSE,
     is_unix |-> FALSE, is_windows |-> FALSE, libc |-> "",
     cpu |-> "", vendor |-> ""]

OsFromRaw(raw) ==
    (IF raw.is_linux THEN OsLINUX ELSE {})
    \cup (IF raw.is_android THEN OsANDROID ELSE {})
    \cup (IF raw.is_freebsd THEN OsFREEBSD ELSE {})
    \cup (IF raw.is_netbsd THEN OsNETBSD ELSE {})
    \cup (IF raw.is_macos THEN OsMACOS ELSE {})
    \cup (IF raw.is_windows THEN OsWINDOWS ELSE {})
    \cup (IF raw.is_ios THEN OsIOS ELSE {})
    \cup (IF raw.is_openbsd THEN OsOPENBSD ELSE {})
    \cup (IF raw.is_unix THEN OsUNIX ELSE {})

\* Platform::try_from: every branch ends in Ok(Platform {..})
PlatformTryFrom(raw) ==
    [ok |-> TRUE,
     platform |->
        [config |-> raw.config,
         endianness |-> IF raw.is_little_endian THEN Some("Little")
                        ELSE IF raw.is_big_endian THEN Some("Big")
                        ELSE NoneValue,
         env |-> Some(CASE raw.libc = "glibc" -> [tag |-> "Gnu", raw |-> ""]
                        [] raw.libc = "musl" -> [tag |-> "Musl", raw |-> ""]
                        [] raw.libc = "msvcrt" -> [tag |-> "Msvc", raw |-> ""]
                        [] OTHER -> [tag |-> "Other", raw |-> raw.libc]),
         arch |-> Some(raw.cpu),
         os |-> Some(OsFromRaw(raw)),
         pointer_width |-> IF raw.is32bit THEN Some("I32")
                           ELSE IF raw.is64bit THEN Some("I64")
                           ELSE NoneValue,
         vendor |-> Some(raw.vendor)]]

(***************************************************************************)
(* Conditional-compilation predicates.  A target-block key is a string;    *)
(* parse_cfg maps it to a predicate tree or fails, and test evaluates the  *)
(* tree against a platform and the evaluating crate's feature set.         *)
(***************************************************************************)
KeyLinuxConfig == "x86_64-unknown-linux-gnu"
KeyForeignTriple == "i686-pc-windows-gnu"
KeyUnix == "cfg(unix)"
KeyFeatureX == "cfg(feature = \"x\")"
KeyMalformed == "cfg(unix"
KeyWindows == "cfg(windows)"
KeyAny == "cfg(any(unix, windows))"
KeyAll == "cfg(all(unix, windows))"
KeyNot == "cfg(not(windows))"

\* the keys in the order a BTreeMap<String, _> iterates them
SortedKeys ==
    <<KeyFeatureX, KeyMalformed, KeyUnix, KeyForeignTriple, KeyLinuxConfig>>

Atom(op) == [op |-> op, value |-> "", args |-> <<>>]

\* a combinator over predicates
Combinator(op, args) == [op |-> op, value |-> "", args |-> args]

parse_cfg(target_spec) ==
    CASE target_spec = KeyUnix -> [ok |-> TRUE, pred |-> Atom("unix")]
      [] target_spec = KeyWindows -> [ok |-> TRUE, pred |-> Atom("windows")]
      [] target_spec = KeyAny ->
            [ok |-> TRUE,
             pred |-> Combinator("any", <<Atom("unix"), Atom("windows")>>)]
      [] target_spec = KeyAll ->
            [ok |-> TRUE,
             pred |-> Combinator("all", <<Atom("unix"), Atom("windows")>>)]
      [] target_spec = KeyNot ->
            [ok |-> TRUE, pred |-> Combinator("not", <<Atom("windows")>>)]
      [] target_spec = KeyFeatureX ->
            [ok |-> TRUE, pred |-> [op |-> "feature", value |-> "x", args |-> <<>>]]
      [] OTHER -> [ok |-> FALSE, pred |-> Atom("none")]

\* CratePlatform::with_features
with_features(platform, crate_features) ==
    [platform |-> platform, crate_features |-> crate_features]

RECURSIVE test(_, _)
test(pred, crate_platform) ==
    CASE pred.op = "unix" ->
            OsContains(crate_platform.platform.os.value, OsUNIX)
      [] pred.op = "windows" ->
            OsContains(crate_platform.platform.os.value, OsWINDOWS)
      [] pred.op = "feature" -> pred.value \in crate_platform.crate_features
      [] pred.op = "any" ->
            \E i \in 1..Len(pred.args) : test(pred.args[i], crate_platform)
      [] pred.op = "all" ->
            \A i \in 1..Len(pred.args) : test(pred.args[i], crate_platform)
      [] pred.op = "not" -> ~test(pred.args[1], crate_platform)
      [] OTHER -> FALSE

(***************************************************************************)
(* The package graph.  DepSpecMap and the feature map are functions from   *)
(* names; BTreeMap iteration order is the order of SortedNames.            *)
(***************************************************************************)
SortedNames == <<"a", "b", "c", "m", "z">>

\* the keys of map m in BTreeMap order, given the sorted universe
RECURSIVE SortedDomain(_, _)
SortedDomain(m, sorted) ==
    IF sorted = <<>> THEN <<>>
    ELSE IF Head(sorted) \in DOMAIN m
         THEN <<Head(sorted)>> \o SortedDomain(m, Tail(sorted))
         ELSE SortedDomain(m, Tail(sorted))

EmptyMap == [n \in {} |-> 0]

\* DepSpecTry::default
DepSpecDefault == [optional |-> FALSE, features |-> <<>>, default_features |-> TRUE]

EmptyTargetSpecMap ==
    [dependencies |-> EmptyMap, build_dependencies |-> EmptyMap,
     dev_dependencies |-> EmptyMap]

\* the optional dependency b of the root package A
SpecB == [optional |-> TRUE, features |-> <<"x">>, default_features |-> TRUE]

PackageA(bInTarget, tkey) ==
    [dependencies |->
        <<[package_id |-> "B", toml_names |-> <<"b">>],
          [package_id |-> "C", toml_names |-> <<"c">>],
          [package_id |-> "M", toml_names |-> <<"m">>]>>,
     manifest |->
        [lib |-> [proc_macro |-> FALSE],
         dependencies |->
            IF bInTarget
            THEN ("c" :> [DepSpecDefault EXCEPT !.default_features = FALSE])
            ELSE ("b" :> SpecB)
                 @@ ("c" :> [DepSpecDefault EXCEPT !.default_features = FALSE]),
         build_dependencies |-> EmptyMap,
         dev_dependencies |-> ("m" :> DepSpecDefault),
         target |->
            (tkey :>
                [EmptyTargetSpecMap EXCEPT
                    !.dependencies =
                        IF bInTarget
                        THEN ("b" :> SpecB) @@ ("m" :> DepSpecDefault)
                        ELSE ("m" :> DepSpecDefault)]),
         features |->
            ("full" :> <<"b">>) @@ ("f" :> <<"g">>) @@ ("g" :> <<"f">>)]]

PackageB(bProc, dangling) ==
    [dependencies |->
        <<[package_id |-> "C", toml_names |-> <<"c">>],
          [package_id |-> "M", toml_names |-> <<"m">>]>>
        \o (IF dangling THEN <<[package_id |-> "Z", toml_names |-> <<"z">>]>>
            ELSE <<>>),
     manifest |->
        [lib |-> [proc_macro |-> bProc],
         dependencies |->
            IF dangling
            THEN ("c" :> DepSpecDefault) @@ ("z" :> DepSpecDefault)
            ELSE ("c" :> DepSpecDefault),
         build_dependencies |-> ("m" :> DepSpecDefault),
         dev_dependencies |-> ("c" :> DepSpecDefault),
         target |-> EmptyMap,
         features |->
            ("default" :> <<"x">>) @@ ("x" :> <<>>) @@ ("y" :> <<"x">>)]]

PackageC ==
    [dependencies |-> <<[package_id |-> "M", toml_names |-> <<"m">>]>>,
     manifest |->
        [lib |-> [proc_macro |-> FALSE],
         dependencies |-> ("m" :> DepSpecDefault),
         build_dependencies |-> EmptyMap,
         dev_dependencies |-> ("m" :> DepSpecDefault),
         target |-> EmptyMap,
         features |-> EmptyMap]]

PackageM ==
    [dependencies |-> <<>>,
     manifest |->
        [lib |-> [proc_macro |-> TRUE],
         dependencies |-> EmptyMap,
         build_dependencies |-> EmptyMap,
         dev_dependencies |-> EmptyMap,
         target |-> EmptyMap,
         features |-> ("default" :> <<>>)]]

\* the package sets resolve is run on; "Z" is in none of them
PackageSets ==
    { ("A" :> PackageA(bInTarget, tkey)) @@ ("B" :> PackageB(bProc, dangling))
      @@ ("C" :> PackageC) @@ ("M" :> PackageM) :
        bInTarget \in BOOLEAN, bProc \in BOOLEAN, dangling \in BOOLEAN,
        tkey \in {KeyFeatureX, KeyMalformed, KeyUnix, KeyForeignTriple,
                  KeyLinuxConfig} }

\* a package that depends on A twice: normally, asking for A's feature x,
\* and as a build dependency
PackageW ==
    [dependencies |-> <<[package_id |-> "A", toml_names |-> <<"a">>]>>,
     manifest |->
        [lib |-> [proc_macro |-> FALSE],
         dependencies |->
            ("a" :> [optional |-> FALSE, features |-> <<"x">>,
                     default_features |-> FALSE]),
         build_dependencies |->
            ("a" :> [DepSpecDefault EXCEPT !.default_features = FALSE]),
         dev_dependencies |-> EmptyMap,
         target |-> EmptyMap,
         features |-> EmptyMap]]

\* A with a target block keyed cfg(feature = "x"), with a feature named as
\* its optional dependency b, and with c as a build dependency too
PackageAOverlap(bInTarget) ==
    [PackageA(bInTarget, KeyFeatureX) EXCEPT
        !.manifest.features = ("b" :> <<"x">>) @@ @,
        !.manifest.build_dependencies = ("c" :> DepSpecDefault)]

OverlapPackageSets ==
    { ("W" :> PackageW) @@ ("A" :> PackageAOverlap(bInTarget))
      @@ ("B" :> PackageB(FALSE, FALSE)) @@ ("C" :> PackageC) @@ ("M" :> PackageM) :
        bInTarget \in BOOLEAN }

\* feature names for these package sets: b is an optional and c a
\* non-optional dependency of A, m a dev dependency of A and a dependency
\* of its target block
OverlapFeatures == {"b", "c", "x", "full", "b/y", "m/d"}

OverlapFeatureLists == UNION { [1..k -> OverlapFeatures] : k \in 0..MaxFeatures }

OverlapRequests ==
    [build_platform : {RawLinux},
     host_platform : {RawLinux},
     packages : OverlapPackageSets,
     initial_requests :
        { <<r>> : r \in [package_id : {"W", "A"}, features : OverlapFeatureLists,
                         target : {"Host"}, use_dev_deps : BOOLEAN] }]

\* the feature names an initial request may carry
RequestFeatures == {"default", "full", "f", "b", "x", "b/y"}

FeatureLists == UNION { [1..k -> RequestFeatures] : k \in 0..MaxFeatures }

\* PackageRequest: `target` is #[serde(skip)], so it is TargetPlatform::default()
PackageRequests ==
    { [package_id |-> p, features |-> fs, target |-> "Host", use_dev_deps |-> u] :
        p \in {"A", "Z"}, fs \in FeatureLists, u \in BOOLEAN }

ResolveRequests ==
    [build_platform : {RawLinux},
     host_platform : {RawLinux, RawWindows, RawOdd},
     packages : PackageSets,
     initial_requests : {<<>>} \cup { <<r>> : r \in PackageRequests }]

\* DEP_FEATURE = ([^/]+)/(.+), on the feature names of the model
DEP_FEATURE(feature) ==
    CASE feature = "b/y" -> [matched |-> TRUE, dep |-> "b", dep_feature |-> "y"]
      [] feature = "m/d" -> [matched |-> TRUE, dep |-> "m", dep_feature |-> "d"]
      [] OTHER -> [matched |-> FALSE, dep |-> "", dep_feature |-> ""]

(***************************************************************************)
(* resolve, up to the worklist loop.                                       *)
(***************************************************************************)
RECURSIVE InsertTomlNames(_, _, _)
InsertTomlNames(h, toml_names, dep_pkg_id) ==
    IF toml_names = <<>> THEN h
    ELSE InsertTomlNames(
            [n \in DOMAIN h \cup {Head(toml_names)} |->
                IF n = Head(toml_names) THEN dep_pkg_id ELSE h[n]],
            Tail(toml_names), dep_pkg_id)

RECURSIVE MayDependingOnOf(_, _)
MayDependingOnOf(h, dependencies) ==
    IF dependencies = <<>> THEN h
    ELSE MayDependingOnOf(
            InsertTomlNames(h, Head(dependencies).toml_names,
                            Head(dependencies).package_id),
            Tail(dependencies))

BuildMayDependingOn(packages) ==
    [p \in DOMAIN packages |-> MayDependingOnOf(EmptyMap, packages[p].dependencies)]

\* mutant: every EnablePackage request asks for the dev dependencies
EnablePackageReq_use_dev(package_id, target, use_dev_deps) ==
    [kind |-> "EnablePackage", package_id |-> package_id, target |-> target,
     use_dev_deps |-> TRUE, feature |-> ""]

EnablePackageReq(package_id, target, use_dev_deps) ==
    [kind |-> "EnablePackage", package_id |-> package_id, target |-> target,
     use_dev_deps |-> use_dev_deps, feature |-> ""]

EnableFeatureReq(package_id, target, feature) ==
    [kind |-> "EnableFeature", package_id |-> package_id, target |-> target,
     use_dev_deps |-> FALSE, feature |-> feature]

NoRequest ==
    [kind |-> "None", package_id |-> "", target |-> "Host",
     use_dev_deps |-> FALSE, feature |-> ""]

RECURSIVE FeatureRequests(_, _, _)
FeatureRequests(package_id, target, features) ==
    IF features = <<>> THEN <<>>
    ELSE <<EnableFeatureReq(package_id, target, Head(features))>>
         \o FeatureRequests(package_id, target, Tail(features))

RECURSIVE InitialQueue(_)
InitialQueue(initial_requests) ==
    IF initial_requests = <<>> THEN <<>>
    ELSE LET r == Head(initial_requests)
         IN <<EnablePackageReq(r.package_id, r.target, r.use_dev_deps)>>
            \o FeatureRequests(r.package_id, r.target, r.features)
            \o InitialQueue(Tail(initial_requests))

DependingOnDefault == [build |-> {}, host |-> {}]

DependingOnStateDefault ==
    [depending_on |-> EmptyMap, build_depending_on |-> EmptyMap,
     dev_depending_on |-> EmptyMap]

EmptyResponse ==
    [dependencies |-> EmptyMap, build_dependencies |-> EmptyMap,
     dev_dependencies |-> EmptyMap, features |-> EmptyMap]

\* no resolution pass has run
NoPass == [kind |-> "None", root |-> "", feature |-> "", units |-> {}]

\* `generate_cargo_nix` is not running
EngineOff ==
    /\ epc = "off"
    /\ root_pkgs = <<>>
    /\ root_i = 0
    /\ feature_i = 0
    /\ rpkgs_by_id = EmptyMap
    /\ rendered = EmptyMap
    /\ marked = {}
    /\ touched = NoPass
    /\ activated = {}

NoOsInput == [kind |-> "None", name |-> "", raw |-> RawOdd]

NoEnumInput == [kind |-> "None", raw |-> <<>>]

NoCfgInput == [kind |-> "None", key |-> "", raw |-> RawOdd, features |-> {}]

NoCfgResult == [parsed |-> FALSE, value |-> FALSE]

NoDeInput == [kind |-> "None", fields |-> {}, libc |-> ""]

NoDeResult == [ok |-> FALSE, libc |-> "", missing |-> ""]

NoEnumValue == [tag |-> "None", other |-> <<>>]

NoFile == [exists |-> FALSE, readable |-> FALSE, lines |-> <<>>]

NoVersion == [major |-> 0, minor |-> 0, patch |-> 0]

\* write_to_file is not running
WriteOff ==
    /\ wpc = "off"
    /\ tool_version = NoVersion
    /\ old_file = NoFile
    /\ target_file = NoFile
    /\ line = <<>>
    /\ temp_file = "none"
    /\ prompted = FALSE
    /\ generated = FALSE
    /\ write_result = "none"

\* no value is being converted
ConversionOff ==
    /\ ppc = "off"
    /\ os_input = NoOsInput
    /\ os_value = {}
    /\ os_display = ""
    /\ enum_input = NoEnumInput
    /\ enum_value = NoEnumValue
    /\ enum_display = <<>>
    /\ cfg_input = NoCfgInput
    /\ cfg_result = NoCfgResult
    /\ de_input = NoDeInput
    /\ de_result = NoDeResult

\* no value is being converted and no file is being written
PlatformOff == ConversionOff /\ WriteOff

Init ==
    /\ EngineOff
    /\ PlatformOff
    /\ pc = "start"
    /\ request \in ResolveRequests
    /\ build_platform = NoneValue
    /\ host_platform = NoneValue
    /\ may_depending_on = EmptyMap
    /\ req_queue = <<>>
    /\ cur = NoRequest
    /\ depending_on_state = DependingOnStateDefault
    /\ features_enabled = EmptyMap
    /\ result = "none"
    /\ response = EmptyResponse
    /\ spawned = {}
    /\ handled = {}

\* resolve, lines 421-485: the two conversions (`?` returns the error), the
\* may-depending-on relation and the initial queue
Start ==
    /\ pc = "start"
    /\ LET b == PlatformTryFrom(request.build_platform)
           h == PlatformTryFrom(request.host_platform)
       IN IF b.ok /\ h.ok
          THEN /\ build_platform' = b.platform
               /\ host_platform' = h.platform
               /\ may_depending_on' = BuildMayDependingOn(request.packages)
               /\ req_queue' = InitialQueue(request.initial_requests)
               /\ pc' = "loop"
               /\ result' = result
          ELSE /\ pc' = "done"
               /\ result' = "parse_error"
               /\ UNCHANGED <<build_platform, host_platform, may_depending_on,
                              req_queue>>
    /\ UNCHANGED <<request, cur, depending_on_state, features_enabled,
                   response, spawned, handled>>
    /\ UNCHANGED <<engine_vars, platform_vars>>


(***************************************************************************)
(* The worklist loop.  The handlers are operators on a work record W, the   *)
(* mutable locals of `resolve`:                                            *)
(*   [req_queue, depending_on_state, features_enabled, panicked, spawned]  *)
(* `panicked` is set where the code indexes package_set[..] with an id the *)
(* package set does not hold; nothing after that point is executed.        *)
(***************************************************************************)
Work ==
    [req_queue |-> req_queue, depending_on_state |-> depending_on_state,
     features_enabled |-> features_enabled, panicked |-> FALSE,
     spawned |-> spawned]

\* map.entry(package_id).or_default()
Entry(map, package_id) ==
    IF package_id \in DOMAIN map THEN map
    ELSE [p \in DOMAIN map \cup {package_id} |->
            IF p = package_id THEN DependingOnDefault ELSE map[p]]

\* the `match target { Host => &mut ..host, Build => &mut ..build }` selection
RoleSet(depending_on, target) ==
    IF target = "Host" THEN depending_on.host ELSE depending_on.build

\* mutant: the requester itself is inserted in place of the dependency
InsertEdge_requester(map, package_id, target, d) ==
    [map EXCEPT ![package_id] =
        IF target = "Host" THEN [@ EXCEPT !.host = @ \cup {package_id}]
        ELSE [@ EXCEPT !.build = @ \cup {package_id}]]

\* set.insert(d) on the set selected by target
InsertEdge(map, package_id, target, d) ==
    [map EXCEPT ![package_id] =
        IF target = "Host" THEN [@ EXCEPT !.host = @ \cup {d}]
        ELSE [@ EXCEPT !.build = @ \cup {d}]]

SomeStr(v) == [kind |-> "Some", value |-> v]

NoneStr == [kind |-> "None", value |-> ""]

\* mutant: the edge goes into the set of the shifted role of the dependency
enable_dep_spec_shifted_set(W, package_id, set_target, target, kind, dep_toml_name, spec) ==
    IF spec.optional THEN W
    ELSE IF dep_toml_name \notin DOMAIN may_depending_on[package_id] THEN W
    ELSE LET d == may_depending_on[package_id][dep_toml_name]
         IN IF d \notin DOMAIN request.packages
            THEN [W EXCEPT !.panicked = TRUE]
            ELSE LET is_proc_macro == request.packages[d].manifest.lib.proc_macro
                     tgt == IF is_proc_macro THEN to_build(target) ELSE target
                     new == d \notin RoleSet(W.depending_on_state[kind][package_id],
                                             tgt)
                 IN [W EXCEPT
                        !.depending_on_state[kind] =
                            InsertEdge(@, package_id, tgt, d),
                        !.req_queue =
                            @ \o (IF new THEN <<EnablePackageReq(d, tgt, FALSE)>>
                                  ELSE <<>>)
                              \o (IF spec.default_features
                                  THEN <<EnableFeatureReq(d, tgt, "default")>>
                                  ELSE <<>>)
                              \o FeatureRequests(d, tgt, spec.features),
                        !.spawned = IF new THEN @ \cup {<<d, tgt>>} ELSE @]

\* mutant: "default" is enabled whatever default_features is
enable_dep_spec_default_always(W, package_id, set_target, target, kind, dep_toml_name, spec) ==
    IF spec.optional THEN W
    ELSE IF dep_toml_name \notin DOMAIN may_depending_on[package_id] THEN W
    ELSE LET d == may_depending_on[package_id][dep_toml_name]
         IN IF d \notin DOMAIN request.packages
            THEN [W EXCEPT !.panicked = TRUE]
            ELSE LET is_proc_macro == request.packages[d].manifest.lib.proc_macro
                     tgt == IF is_proc_macro THEN to_build(target) ELSE target
                     new == d \notin RoleSet(W.depending_on_state[kind][package_id],
                                             set_target)
                 IN [W EXCEPT
                        !.depending_on_state[kind] =
                            InsertEdge(@, package_id, set_target, d),
                        !.req_queue =
                            @ \o (IF new THEN <<EnablePackageReq(d, tgt, FALSE)>>
                                  ELSE <<>>)
                              \o <<EnableFeatureReq(d, tgt, "default")>>
                              \o FeatureRequests(d, tgt, spec.features),
                        !.spawned = IF new THEN @ \cup {<<d, tgt>>} ELSE @]

\* enable_dep, the body of `for (dep_toml_name, spec) in dep_spec`:
\* set_target picks the requester's set, target is the shifted role
enable_dep_spec(W, package_id, set_target, target, kind, dep_toml_name, spec) ==
    IF spec.optional THEN W
    ELSE IF dep_toml_name \notin DOMAIN may_depending_on[package_id] THEN W
    ELSE LET d == may_depending_on[package_id][dep_toml_name]
         IN IF d \notin DOMAIN request.packages
            THEN [W EXCEPT !.panicked = TRUE]
            ELSE LET is_proc_macro == request.packages[d].manifest.lib.proc_macro
                     tgt == IF is_proc_macro THEN to_build(target) ELSE target
                     new == d \notin RoleSet(W.depending_on_state[kind][package_id],
                                             set_target)
                 IN [W EXCEPT
                        !.depending_on_state[kind] =
                            InsertEdge(@, package_id, set_target, d),
                        !.req_queue =
                            @ \o (IF new THEN <<EnablePackageReq(d, tgt, FALSE)>>
                                  ELSE <<>>)
                              \o (IF spec.default_features
                                  THEN <<EnableFeatureReq(d, tgt, "default")>>
                                  ELSE <<>>)
                              \o FeatureRequests(d, tgt, spec.features),
                        !.spawned = IF new THEN @ \cup {<<d, tgt>>} ELSE @]

RECURSIVE enable_dep_loop(_, _, _, _, _, _, _)
enable_dep_loop(W, package_id, set_target, target, kind, dep_spec, names) ==
    IF names = <<>> \/ W.panicked THEN W
    ELSE enable_dep_loop(
            enable_dep_spec(W, package_id, set_target, target, kind,
                            Head(names), dep_spec[Head(names)]),
            package_id, set_target, target, kind, dep_spec, Tail(names))

\* enable_dep: `kind` names the map handed in as `depending_on`, `shift` the
\* function handed in as `target_shift`
enable_dep(W, package_id, target, dep_spec, kind, shift) ==
    IF W.panicked THEN W
    ELSE enable_dep_loop(
            [W EXCEPT !.depending_on_state[kind] = Entry(@, package_id)],
            package_id, target, target_shift(shift, target), kind, dep_spec,
            SortedDomain(dep_spec, SortedNames))

process_deps(W, package_id, target, dep_spec) ==
    enable_dep(W, package_id, target, dep_spec, "depending_on", "to_host")

\* mutant: build dependencies are recorded in the normal map
process_build_deps_normal_map(W, package_id, target, dep_spec) ==
    enable_dep(W, package_id, target, dep_spec, "depending_on", "to_build")

process_build_deps(W, package_id, target, dep_spec) ==
    enable_dep(W, package_id, target, dep_spec, "build_depending_on", "to_build")

process_dev_deps(W, package_id, target, dep_spec) ==
    enable_dep(W, package_id, target, dep_spec, "dev_depending_on", "to_host")

\* mutant: the dev dependencies are processed whatever use_dev_deps is
EnablePackageDeps_always_dev(W, r, specs) ==
    LET W1 == process_deps(W, r.package_id, r.target, specs.dependencies)
        W2 == process_build_deps(W1, r.package_id, r.target,
                                 specs.build_dependencies)
    IN process_dev_deps(W2, r.package_id, r.target, specs.dev_dependencies)

\* the three calls made for the top level of the manifest and for a target
\* block that applies
EnablePackageDeps(W, r, specs) ==
    LET W1 == process_deps(W, r.package_id, r.target, specs.dependencies)
        W2 == process_build_deps(W1, r.package_id, r.target,
                                 specs.build_dependencies)
    IN IF r.use_dev_deps
       THEN process_dev_deps(W2, r.package_id, r.target, specs.dev_dependencies)
       ELSE W2

PlatformOf(target) == IF target = "Build" THEN build_platform ELSE host_platform

\* mutant: a key that fails to parse is taken to apply
BlockApplies_unparsed_applies(target_spec, target, crate_features) ==
    LET platform == IF target = "Build" THEN build_platform ELSE host_platform
        parsed == parse_cfg(target_spec)
    IN IF target_spec = platform.config THEN TRUE
       ELSE IF parsed.ok
            THEN test(parsed.pred, with_features(platform, crate_features))
            ELSE TRUE

\* whether the block keyed target_spec applies: the literal config string, or
\* else a predicate that parses (`parse_cfg(..).ok()`) and tests true
BlockApplies(target_spec, target, crate_features) ==
    LET platform == PlatformOf(target)
        parsed == parse_cfg(target_spec)
    IN IF target_spec = platform.config THEN TRUE
       ELSE IF parsed.ok
            THEN test(parsed.pred, with_features(platform, crate_features))
            ELSE FALSE

RECURSIVE EnablePackageTargets(_, _, _, _)
EnablePackageTargets(W, r, target_map, keys) ==
    IF keys = <<>> \/ W.panicked THEN W
    ELSE EnablePackageTargets(
            IF BlockApplies(Head(keys), r.target, {})
            THEN EnablePackageDeps(W, r, target_map[Head(keys)])
            ELSE W,
            r, target_map, Tail(keys))

\* the ModifyRequest::EnablePackage arm
HandleEnablePackage(W, r) ==
    IF r.package_id \notin DOMAIN request.packages THEN W
    ELSE LET manifest == request.packages[r.package_id].manifest
         IN EnablePackageTargets(EnablePackageDeps(W, r, manifest), r,
                                 manifest.target,
                                 SortedDomain(manifest.target, SortedKeys))

\* propagate_features
propagate_features(spec, dep_pkg_id, dep_feature, target) ==
    (IF spec.default_features
     THEN <<EnableFeatureReq(dep_pkg_id, target, "default")>> ELSE <<>>)
    \o FeatureRequests(dep_pkg_id, target, spec.features)
    \o (IF dep_feature.kind = "Some"
        THEN <<EnableFeatureReq(dep_pkg_id, target, dep_feature.value)>>
        ELSE <<>>)

\* mutant: the features are propagated for the first of the two roles only
try_enable_dep_single_role(W, package_id, target, dep, dep_pkg_id, dep_feature, kind, dep_specs, shift) ==
    IF W.panicked THEN W
    ELSE IF dep_pkg_id \notin DOMAIN request.packages
    THEN [W EXCEPT !.panicked = TRUE]
    ELSE IF dep \notin DOMAIN dep_specs THEN W
    ELSE
    LET is_proc_macro == request.packages[dep_pkg_id].manifest.lib.proc_macro
        shifted(t) == IF is_proc_macro THEN to_build(target_shift(shift, t))
                      ELSE target_shift(shift, t)
        spec == dep_specs[dep]
        map0 == Entry(W.depending_on_state[kind], package_id)
        new1 == dep_pkg_id \notin RoleSet(map0[package_id], target)
        map1 == InsertEdge(map0, package_id, target, dep_pkg_id)
        new2 == dep_pkg_id \notin RoleSet(map1[package_id], to_build(target))
        map2 == InsertEdge(map1, package_id, to_build(target), dep_pkg_id)
        t1 == shifted(target)
        t2 == shifted(to_build(target))
    IN [W EXCEPT
           !.depending_on_state[kind] = map2,
           !.req_queue =
               @ \o (IF new1 THEN <<EnablePackageReq(dep_pkg_id, t1, FALSE)>>
                     ELSE <<>>)
                 \o (IF new2 THEN <<EnablePackageReq(dep_pkg_id, t2, FALSE)>>
                     ELSE <<>>)
                 \o propagate_features(spec, dep_pkg_id, dep_feature, t1),
           !.spawned = @ \cup (IF new1 THEN {<<dep_pkg_id, t1>>} ELSE {})
                         \cup (IF new2 THEN {<<dep_pkg_id, t2>>} ELSE {})]

\* try_enable_dep
try_enable_dep(W, package_id, target, dep, dep_pkg_id, dep_feature, kind, dep_specs, shift) ==
    IF W.panicked THEN W
    ELSE IF dep_pkg_id \notin DOMAIN request.packages
    THEN [W EXCEPT !.panicked = TRUE]
    ELSE IF dep \notin DOMAIN dep_specs THEN W
    ELSE
    LET is_proc_macro == request.packages[dep_pkg_id].manifest.lib.proc_macro
        shifted(t) == IF is_proc_macro THEN to_build(target_shift(shift, t))
                      ELSE target_shift(shift, t)
        spec == dep_specs[dep]
        map0 == Entry(W.depending_on_state[kind], package_id)
        new1 == dep_pkg_id \notin RoleSet(map0[package_id], target)
        map1 == InsertEdge(map0, package_id, target, dep_pkg_id)
        new2 == dep_pkg_id \notin RoleSet(map1[package_id], to_build(target))
        map2 == InsertEdge(map1, package_id, to_build(target), dep_pkg_id)
        t1 == shifted(target)
        t2 == shifted(to_build(target))
    IN [W EXCEPT
           !.depending_on_state[kind] = map2,
           !.req_queue =
               @ \o (IF new1 THEN <<EnablePackageReq(dep_pkg_id, t1, FALSE)>>
                     ELSE <<>>)
                 \o (IF new2 THEN <<EnablePackageReq(dep_pkg_id, t2, FALSE)>>
                     ELSE <<>>)
                 \o propagate_features(spec, dep_pkg_id, dep_feature, t1)
                 \o propagate_features(spec, dep_pkg_id, dep_feature, t2),
           !.spawned = @ \cup (IF new1 THEN {<<dep_pkg_id, t1>>} ELSE {})
                         \cup (IF new2 THEN {<<dep_pkg_id, t2>>} ELSE {})]

\* process_dep followed by process_build_dep, on one pair of DepSpecMaps
EnableFeatureDeps(W, r, dep, dep_pkg_id, dep_feature, specs) ==
    try_enable_dep(
        try_enable_dep(W, r.package_id, r.target, dep, dep_pkg_id, dep_feature,
                       "depending_on", specs.dependencies, "to_host"),
        r.package_id, r.target, dep, dep_pkg_id, dep_feature,
        "build_depending_on", specs.build_dependencies, "to_build")

RECURSIVE EnableFeatureTargets(_, _, _, _, _, _, _, _)
EnableFeatureTargets(W, r, dep, dep_pkg_id, dep_feature, current_features, target_map, keys) ==
    IF keys = <<>> \/ W.panicked THEN W
    ELSE EnableFeatureTargets(
            IF BlockApplies(Head(keys), r.target, current_features)
            THEN EnableFeatureDeps(W, r, dep, dep_pkg_id, dep_feature,
                                   target_map[Head(keys)])
            ELSE W,
            r, dep, dep_pkg_id, dep_feature, current_features, target_map,
            Tail(keys))

\* mutant: only the owner/name form names a dependency
ResolveFeature_slash_only(package_id, feature) ==
    LET c == DEP_FEATURE(feature)
    IN IF c.matched
       THEN [dep |-> SomeStr(c.dep), dep_feature |-> SomeStr(c.dep_feature)]
       ELSE [dep |-> NoneStr, dep_feature |-> NoneStr]

\* the (dep, dep_feature) pair of lines 767-779
ResolveFeature(package_id, feature) ==
    LET c == DEP_FEATURE(feature)
    IN IF c.matched
       THEN [dep |-> SomeStr(c.dep), dep_feature |-> SomeStr(c.dep_feature)]
       ELSE IF package_id \in DOMAIN may_depending_on
               /\ feature \in DOMAIN may_depending_on[package_id]
            THEN [dep |-> SomeStr(feature), dep_feature |-> NoneStr]
            ELSE [dep |-> NoneStr, dep_feature |-> NoneStr]

\* the name recorded in the enabled-feature set
ResolvedName(package_id, feature) ==
    LET rf == ResolveFeature(package_id, feature)
    IN IF rf.dep.kind = "Some" THEN rf.dep.value ELSE feature

\* mutant: a name is inserted only into a set that does not exist yet
InsertFeature_first_only(fmap, package_id, name) ==
    IF package_id \in DOMAIN fmap THEN fmap
    ELSE [p \in DOMAIN fmap \cup {package_id} |->
            IF p = package_id THEN {name} ELSE fmap[p]]

\* features_enabled.entry(package_id).or_default().insert(name)
InsertFeature(fmap, package_id, name) ==
    [p \in DOMAIN fmap \cup {package_id} |->
        IF p = package_id
        THEN (IF p \in DOMAIN fmap THEN fmap[p] ELSE {}) \cup {name}
        ELSE fmap[p]]

\* mutant: the implied features are not enqueued
ImpliedRequests_none(r) == <<>>

\* the requests pushed for the features that `feature` implies
ImpliedRequests(r) ==
    LET features == request.packages[r.package_id].manifest.features
    IN IF r.feature \in DOMAIN features
       THEN FeatureRequests(r.package_id, r.target, features[r.feature])
       ELSE <<>>

\* the ModifyRequest::EnableFeature arm
HandleEnableFeature(W, r) ==
    IF r.package_id \notin DOMAIN request.packages THEN W
    ELSE
    LET manifest == request.packages[r.package_id].manifest
        rf == ResolveFeature(r.package_id, r.feature)
        has_pkg == rf.dep.kind = "Some"
                   /\ rf.dep.value \in DOMAIN may_depending_on[r.package_id]
        W1 == [W EXCEPT
                  !.features_enabled =
                      InsertFeature(@, r.package_id,
                                    ResolvedName(r.package_id, r.feature)),
                  !.req_queue = @ \o ImpliedRequests(r)]
        current_features == W1.features_enabled[r.package_id]
    IN IF ~has_pkg THEN W1
       ELSE LET dep == rf.dep.value
                dep_pkg_id == may_depending_on[r.package_id][dep]
            IN EnableFeatureTargets(
                   EnableFeatureDeps(W1, r, dep, dep_pkg_id, rf.dep_feature,
                                     manifest),
                   r, dep, dep_pkg_id, rf.dep_feature, current_features,
                   manifest.target, SortedDomain(manifest.target, SortedKeys))

\* the loop body: `match req { .. }`
Handle(W, r) ==
    IF r.kind = "EnablePackage" THEN HandleEnablePackage(W, r)
    ELSE HandleEnableFeature(W, r)

\* transformer: the BTreeMap collected from the (config, set) pairs; with
\* equal config strings the later pair, the host one, replaces the earlier
transformer(dependencies) ==
    [c \in {build_platform.config, host_platform.config} |->
        IF c = host_platform.config THEN dependencies.host
        ELSE dependencies.build]

Transformed(map) == [p \in DOMAIN map |-> transformer(map[p])]

BuildResponse ==
    [dependencies |-> Transformed(depending_on_state.depending_on),
     build_dependencies |-> Transformed(depending_on_state.build_depending_on),
     dev_dependencies |-> Transformed(depending_on_state.dev_depending_on),
     features |-> features_enabled]

(***************************************************************************)
(* Actions.                                                                *)
(***************************************************************************)
\* `while let Some(req) = req_queue.pop_front()`, a request is there
PopRequest ==
    /\ pc = "loop"
    /\ cur.kind = "None"
    /\ req_queue # <<>>
    /\ cur' = Head(req_queue)
    /\ req_queue' = Tail(req_queue)
    /\ UNCHANGED <<pc, request, build_platform, host_platform, may_depending_on,
                   depending_on_state, features_enabled, result, response,
                   spawned, handled>>
    /\ UNCHANGED <<engine_vars, platform_vars>>

\* the effect of a handler that ran from Work to W
Commit(W) ==
    /\ Len(W.req_queue) <= MaxQueue
    /\ cur' = NoRequest
    /\ handled' = handled \cup {cur}
    /\ IF W.panicked
       THEN /\ pc' = "done"
            /\ result' = "panic"
            /\ UNCHANGED <<req_queue, depending_on_state, features_enabled,
                           spawned>>
       ELSE /\ req_queue' = W.req_queue
            /\ depending_on_state' = W.depending_on_state
            /\ features_enabled' = W.features_enabled
            /\ spawned' = W.spawned
            /\ UNCHANGED <<pc, result>>
    /\ UNCHANGED <<request, build_platform, host_platform, may_depending_on,
                   response>>
    /\ UNCHANGED <<engine_vars, platform_vars>>

EnablePackage ==
    /\ pc = "loop"
    /\ cur.kind = "EnablePackage"
    /\ Commit(HandleEnablePackage(Work, cur))

EnableFeature ==
    /\ pc = "loop"
    /\ cur.kind = "EnableFeature"
    /\ Commit(HandleEnableFeature(Work, cur))

\* the queue is empty: the loop ends and the response is built
Return ==
    /\ pc = "loop"
    /\ cur.kind = "None"
    /\ req_queue = <<>>
    /\ pc' = "done"
    /\ result' = "ok"
    /\ response' = BuildResponse
    /\ UNCHANGED <<request, build_platform, host_platform, may_depending_on,
                   req_queue, cur, depending_on_state, features_enabled,
                   spawned, handled>>
    /\ UNCHANGED <<engine_vars, platform_vars>>

Next == Start \/ PopRequest \/ EnablePackage \/ EnableFeature \/ Return

Spec == Init /\ [][Next]_vars

\* the runs on the package sets without a dangling dependency entry, with a
\* Linux host and a cfg(unix) target block
LiveInit ==
    /\ Init
    /\ request.host_platform = RawLinux
    /\ request.packages \in
          { ("A" :> PackageA(bInTarget, KeyUnix)) @@ ("B" :> PackageB(bProc, FALSE))
            @@ ("C" :> PackageC) @@ ("M" :> PackageM) :
              bInTarget \in BOOLEAN, bProc \in BOOLEAN }

\* the loop is sequential code: it keeps running while a step is possible
FairSpec == LiveInit /\ [][Next]_vars /\ WF_vars(Next)

\* the runs on the package sets in which A is enabled in two roles and
\* feature names of A are also names of its dependencies
OverlapInit ==
    /\ EngineOff
    /\ PlatformOff
    /\ pc = "start"
    /\ request \in OverlapRequests
    /\ build_platform = NoneValue
    /\ host_platform = NoneValue
    /\ may_depending_on = EmptyMap
    /\ req_queue = <<>>
    /\ cur = NoRequest
    /\ depending_on_state = DependingOnStateDefault
    /\ features_enabled = EmptyMap
    /\ result = "none"
    /\ response = EmptyResponse
    /\ spawned = {}
    /\ handled = {}

OverlapSpec == OverlapInit /\ [][Next]_vars


(***************************************************************************)
(* Properties.                                                             *)
(***************************************************************************)
\* the queue never reaches the cap, so the guard in Commit removes no step
QueueBelowCap == Len(req_queue) < MaxQueue

TypeOK ==
    /\ pc \in {"off", "start", "loop", "done"}
    /\ result \in {"none", "ok", "parse_error", "panic"}
    /\ (result # "none") <=> (pc = "done")
    /\ \A i \in 1..Len(req_queue) :
          /\ req_queue[i].kind \in {"EnablePackage", "EnableFeature"}
          /\ req_queue[i].target \in TargetPlatform

\* C1: for every finite package set and initial request list the worklist
\* loop of resolve comes to an end (the queue runs empty and resolve
\* returns), also when features imply each other in a cycle.
C1_LoopTerminates == <>(pc = "done")


\* ---------------------------------------------------------------- helpers
Packages == request.packages

IsProcMacro(d) == d \in DOMAIN Packages /\ Packages[d].manifest.lib.proc_macro

\* the set of role `target` that `kind` records for package p ({} without entry)
Recorded(kind, p, target) ==
    IF p \in DOMAIN depending_on_state[kind]
    THEN RoleSet(depending_on_state[kind][p], target)
    ELSE {}

MapKinds == {"depending_on", "build_depending_on", "dev_depending_on"}

\* the targets of the non-optional specs of dep_spec that p's resolved
\* dependency list names
NonOptionalTargets(p, dep_spec) ==
    { may_depending_on[p][n] :
        n \in { m \in DOMAIN dep_spec :
                  ~dep_spec[m].optional /\ m \in DOMAIN may_depending_on[p] } }

\* the requests a step appended to the queue (the step popped nothing)
Appended(old, new) == { new[i] : i \in (Len(old) + 1)..Len(new) }

HandlerStep == pc = "loop" /\ cur.kind # "None" /\ pc' = "loop"

TheRequest == request.initial_requests[1]

RequestedFeatures ==
    IF request.initial_requests = <<>> THEN {}
    ELSE { TheRequest.features[i] : i \in 1..Len(TheRequest.features) }

\* C2: at termination, for every package d for which an EnablePackage
\* request in role r was enqueued because of a newly recorded edge, every
\* non-optional normal dependency of d is in d's normal depending-on set for
\* role r and every non-optional build dependency of d is in d's build
\* depending-on set for role r.
C2_EdgesClosed ==
    result = "ok" =>
        \A e \in spawned :
            e[1] \in DOMAIN Packages =>
                /\ NonOptionalTargets(e[1], Packages[e[1]].manifest.dependencies)
                      \subseteq Recorded("depending_on", e[1], e[2])
                /\ NonOptionalTargets(e[1],
                                      Packages[e[1]].manifest.build_dependencies)
                      \subseteq Recorded("build_depending_on", e[1], e[2])

\* B was enabled in the Build role for a new edge and the run returned with
\* B's dependency C and build dependency M recorded for that role
C2_Witness ==
    /\ result = "ok"
    /\ <<"B", "Build">> \in spawned
    /\ "C" \in Recorded("depending_on", "B", "Build")
    /\ "M" \in Recorded("build_depending_on", "B", "Build")

\* C3: root A has the optional dependency b (package B) among its
\* dependencies and the feature full = [b].  Resolving A with no feature or
\* only "default" requested never records an edge from A to B; resolving A
\* with "full" requested returns with B in A's Host-role depending-on set and
\* with "full" and "b" in A's enabled-feature set.
C3_EndToEnd ==
    (/\ pc # "start"
     /\ request.initial_requests # <<>>
     /\ TheRequest.package_id = "A"
     /\ "b" \in DOMAIN Packages["A"].manifest.dependencies
     /\ Packages["A"].manifest.dependencies["b"].optional
     /\ Packages["A"].manifest.features["full"] = <<"b">>)
    => /\ RequestedFeatures \subseteq {"default"} =>
            \A kind \in MapKinds, t \in TargetPlatform :
                "B" \notin Recorded(kind, "A", t)
       /\ (result = "ok" /\ "full" \in RequestedFeatures) =>
            /\ "B" \in Recorded("depending_on", "A", "Host")
            /\ {"full", "b"} \subseteq features_enabled["A"]

C3_Witness ==
    /\ result = "ok"
    /\ request.initial_requests # <<>>
    /\ TheRequest.package_id = "A"
    /\ TheRequest.features = <<"full">>
    /\ "b" \in DOMAIN Packages["A"].manifest.dependencies
    /\ "B" \in Recorded("depending_on", "A", "Host")
    /\ {"full", "b"} \subseteq features_enabled["A"]

\* C4: a reference to a package id that is absent from the package set,
\* from an initial request or from a dependency entry reached during
\* resolution, is skipped: no run is aborted by it.
C4_AbsentSkipped == result # "panic"

\* C5: processing EnableFeature(p, role, f) when the resolved name of f is
\* already in p's enabled-feature set is a no-op: nothing is appended to the
\* worklist and the edge maps and the feature map are unchanged.
C5_ReenableIsNoOp ==
    [][(/\ pc = "loop"
        /\ cur.kind = "EnableFeature"
        /\ cur.package_id \in DOMAIN features_enabled
        /\ ResolvedName(cur.package_id, cur.feature)
              \in features_enabled[cur.package_id])
       => /\ req_queue' = req_queue
          /\ depending_on_state' = depending_on_state
          /\ features_enabled' = features_enabled]_vars


\* the loop run on from work record W, for at most `fuel` requests
RECURSIVE RunLoop(_, _)
RunLoop(W, fuel) ==
    IF W.panicked \/ W.req_queue = <<>> \/ fuel = 0 THEN W
    ELSE RunLoop(Handle([W EXCEPT !.req_queue = Tail(@)], Head(W.req_queue)),
                 fuel - 1)

Finished(W) == ~W.panicked /\ W.req_queue = <<>>

\* C6: enqueueing a second EnableFeature(p, role, f), for a request that
\* was handled before and whose feature is enabled on p, yields a final
\* result with the same depending-on edges and the same enabled-feature sets
\* as the run without the duplicate.
C6_DuplicateSameResult ==
    (pc = "loop" /\ cur.kind = "None") =>
        \A r \in handled :
            (/\ r.kind = "EnableFeature"
             /\ r.package_id \in DOMAIN features_enabled
             /\ ResolvedName(r.package_id, r.feature)
                   \in features_enabled[r.package_id])
            => LET plain == RunLoop(Work, MaxSteps)
                   dup == RunLoop([Work EXCEPT !.req_queue = @ \o <<r>>], MaxSteps)
               IN (Finished(plain) /\ Finished(dup)) =>
                     /\ dup.depending_on_state = plain.depending_on_state
                     /\ dup.features_enabled = plain.features_enabled

\* C7: enabling a dependency whose target package is a proc-macro from a
\* Host-role requester records the edge only in the requester's Build-role
\* set, never in its Host-role set.
C7_ProcMacroEdgeOnlyInBuildSet ==
    \A kind \in MapKinds :
        \A p \in DOMAIN depending_on_state[kind] :
            \A d \in depending_on_state[kind][p].host : ~IsProcMacro(d)

\* C7 as amended: an EnablePackage step of a Host-role requester records its
\* non-optional proc-macro dependencies in the requester's Host-role set and
\* leaves every Build-role set as it was; an EnableFeature step of a
\* Host-role requester that activates a proc-macro dependency declared in the
\* requester's dependencies records it in the Host-role set and in the
\* Build-role set.  The Build role is carried by the requests (C8).
C7_ProcMacroEdgeInRequesterSet ==
    [][(HandlerStep /\ cur.target = "Host" /\ cur.package_id \in DOMAIN Packages)
       => LET p == cur.package_id
              manifest == Packages[p].manifest
              rf == ResolveFeature(p, cur.feature)
              after(kind, t) ==
                  IF p \in DOMAIN depending_on_state'[kind]
                  THEN RoleSet(depending_on_state'[kind][p], t) ELSE {}
          IN /\ cur.kind = "EnablePackage" =>
                  /\ \A d \in NonOptionalTargets(p, manifest.dependencies) :
                        IsProcMacro(d) => d \in after("depending_on", "Host")
                  /\ \A kind \in MapKinds :
                        \A q \in DOMAIN depending_on_state'[kind] :
                            depending_on_state'[kind][q].build
                                = Recorded(kind, q, "Build")
             /\ (/\ cur.kind = "EnableFeature"
                 /\ rf.dep.kind = "Some"
                 /\ rf.dep.value \in DOMAIN manifest.dependencies
                 /\ rf.dep.value \in DOMAIN may_depending_on[p]
                 /\ IsProcMacro(may_depending_on[p][rf.dep.value]))
                => /\ may_depending_on[p][rf.dep.value]
                        \in after("depending_on", "Host")
                   /\ may_depending_on[p][rf.dep.value]
                        \in after("depending_on", "Build")]_vars

\* the Host-role package C has recorded its proc-macro dependency M in its
\* Host-role set, and the Host-role root A the proc-macro B it activated by
\* a feature in both of its sets
C7_Witness ==
    /\ "M" \in Recorded("depending_on", "C", "Host")
    /\ "M" \notin Recorded("depending_on", "C", "Build")
    /\ IsProcMacro("B")
    /\ "B" \in Recorded("depending_on", "A", "Host")
    /\ "B" \in Recorded("depending_on", "A", "Build")

\* C8: whenever a handler activates a dependency whose target package has
\* the proc-macro flag, from a Host-role or a Build-role requester, every
\* EnablePackage and EnableFeature request it enqueues for that target
\* carries the Build role.
C8_ProcMacroRequestsAreBuild ==
    [][HandlerStep =>
         \A q \in Appended(req_queue, req_queue') :
            (IsProcMacro(q.package_id) /\ q.package_id # cur.package_id)
            => q.target = "Build"]_vars

\* requests of both kinds are queued for the proc-macro B, activated by a
\* feature of the Host-role root, and for the proc-macro M, activated by
\* EnablePackage; B's own dependency on M was enabled from the Build role
C8_Witness ==
    /\ IsProcMacro("B")
    /\ <<"B", "Build">> \in spawned
    /\ <<"M", "Build">> \in spawned
    /\ EnablePackageReq("B", "Build", FALSE) \in handled
    /\ EnableFeatureReq("B", "Build", "default") \in handled
    /\ EnableFeatureReq("M", "Build", "default") \in handled

\* C9: every request enqueued while a Build-role request is processed
\* carries the Build role.
C9_BuildNeverShiftsBack ==
    [][(HandlerStep /\ cur.target = "Build")
       => \A q \in Appended(req_queue, req_queue') : q.target = "Build"]_vars

\* Build-role requests of both kinds were handled, and the package C, not a
\* proc-macro, was enabled in the Build role from the Build-role package B
C9_Witness ==
    /\ EnablePackageReq("B", "Build", FALSE) \in handled
    /\ EnableFeatureReq("B", "Build", "default") \in handled
    /\ ~IsProcMacro("C")
    /\ EnablePackageReq("C", "Build", FALSE) \in handled

\* a key of p's target map that is neither platform's config string nor a
\* predicate parse_cfg accepts
UnparseableKeys(p) ==
    { k \in DOMAIN Packages[p].manifest.target :
        /\ k # build_platform.config
        /\ k # host_platform.config
        /\ ~parse_cfg(k).ok }

\* the targets of the specs of the target blocks under the keys `keys`
BlockTargets(p, keys) ==
    { may_depending_on[p][n] :
        n \in { m \in UNION { DOMAIN Packages[p].manifest.target[k].dependencies :
                                k \in keys } :
                  m \in DOMAIN may_depending_on[p] } }

\* C10, as the spec states it, for target-block keys: a target-block key of
\* a package the run processed that is neither the platform config string
\* nor a parseable predicate makes resolve return ResolveError::Parse.
C10_UnparseableIsParseError ==
    (/\ pc = "done"
     /\ \E r \in handled :
           r.package_id \in DOMAIN Packages /\ UnparseableKeys(r.package_id) # {})
    => result = "parse_error"

\* C10 as amended: resolve never returns ResolveError::Parse.
\* Platform::try_from accepts every descriptor, and a target-block key that
\* is neither the platform config string nor a parseable predicate is
\* skipped: a package whose target blocks all have such keys gets no edge to
\* a dependency declared only there, and the run still returns.
C10_UnparseableKeySkipped ==
    /\ result # "parse_error"
    /\ pc # "start" =>
         \A p \in DOMAIN Packages :
            (UnparseableKeys(p) = DOMAIN Packages[p].manifest.target) =>
                \A d \in BlockTargets(p, UnparseableKeys(p)) :
                    (d \notin NonOptionalTargets(p, Packages[p].manifest.dependencies)
                     /\ \A n \in DOMAIN Packages[p].manifest.dependencies :
                           n \in DOMAIN may_depending_on[p]
                           => may_depending_on[p][n] # d)
                    => \A t \in TargetPlatform :
                          d \notin Recorded("depending_on", p, t)

\* a run on a package set whose root has a malformed target-block key and
\* on a descriptor without any flag has returned a result
C10_Witness ==
    /\ result = "ok"
    /\ request.host_platform = RawOdd
    /\ UnparseableKeys("A") = {KeyMalformed}
    /\ EnablePackageReq("A", "Host", FALSE) \in handled
    /\ EnableFeatureReq("A", "Host", "b") \in handled
    /\ BlockTargets("A", {KeyMalformed}) = {"B", "M"}
    /\ "C" \in Recorded("depending_on", "A", "Host")

\* the field of the response built from the map `kind`
ResponseField(kind) ==
    CASE kind = "depending_on" -> response.dependencies
      [] kind = "build_depending_on" -> response.build_dependencies
      [] kind = "dev_depending_on" -> response.dev_dependencies

\* C11: for every package and each role, the response holds, under the
\* config string of that role's platform, exactly the set of edges recorded
\* for that role, in each of the normal, build and dev maps; also when the
\* Build and the Host platform have the same config string.
C11_ResponseHoldsRoleSets ==
    result = "ok" =>
        \A kind \in MapKinds :
            /\ DOMAIN ResponseField(kind) = DOMAIN depending_on_state[kind]
            /\ \A p \in DOMAIN depending_on_state[kind], t \in TargetPlatform :
                  /\ PlatformOf(t).config \in DOMAIN ResponseField(kind)[p]
                  /\ ResponseField(kind)[p][PlatformOf(t).config]
                        = RoleSet(depending_on_state[kind][p], t)

(***************************************************************************)
(* The condition engine of `generate_cargo_nix`.  The resolutions are made *)
(* by the cargo library: a pass is given the units it touched, a feature   *)
(* of a package or the dependency of a package on another.                 *)
(***************************************************************************)
\* most root packages of a workspace
MaxRoots == 2

\* the workspace members in the order of ws.members()
RootNames == <<"r1", "r2", "r3">>

\* the feature keys and the optional dependencies of the root manifests
RootManifest(root) ==
    CASE root = "r1" -> [features |-> <<"f">>, optional_deps |-> <<>>]
      [] root = "r2" -> [features |-> <<"default">>, optional_deps |-> <<>>]
      [] OTHER -> [features |-> <<>>, optional_deps |-> <<>>]

SeqToSet(seq) == { seq[i] : i \in 1..Len(seq) }

\* all_features: the feature keys, the optional dependencies and "default"
\* unless it is a key
all_features(pkg) ==
    RootManifest(pkg).features \o RootManifest(pkg).optional_deps
    \o (IF "default" \in SeqToSet(RootManifest(pkg).features) THEN <<>>
        ELSE <<"default">>)

\* Optionality::Required
Required ==
    [tag |-> "Required", required_by_pkgs |-> {}, activated_by_features |-> {}]

\* Optionality::Optional { required_by_pkgs, activated_by_features }
Optional(required_by_pkgs, activated_by_features) ==
    [tag |-> "Optional", required_by_pkgs |-> required_by_pkgs,
     activated_by_features |-> activated_by_features]

\* Optionality::default
OptionalityDefault == Optional({}, {})

\* mutant: the entry is inserted whether or not the root requires the item
activated_by_unchecked(self, root_feature) ==
    IF self.tag = "Optional"
    THEN [self EXCEPT !.activated_by_features = @ \cup {root_feature}]
    ELSE self

\* Optionality::activated_by; root_feature is <<pkg_name, feature>>
activated_by(self, root_feature) ==
    IF self.tag = "Optional"
    THEN IF root_feature[1] \notin self.required_by_pkgs
         THEN [self EXCEPT !.activated_by_features = @ \cup {root_feature}]
         ELSE self
    ELSE self

\* mutant: the root is recorded on an item that was Required, too
required_by_reset(self, pkg_name) ==
    Optional(self.required_by_pkgs \cup {pkg_name}, self.activated_by_features)

\* Optionality::required_by
required_by(self, pkg_name) ==
    IF self.tag = "Optional"
    THEN [self EXCEPT !.required_by_pkgs = @ \cup {pkg_name}]
    ELSE self

\* cargo's DepKind, in the order of its derived Ord
DepKindRank(kind) ==
    CASE kind = "Normal" -> 0 [] kind = "Development" -> 1 [] kind = "Build" -> 2

ResolvedDependency == [optionality |-> OptionalityDefault]

\* ResolvedPackage::new on the packages of the workspace: the roots depend on
\* p (r1 also as a dev-dependency), p has the feature x and depends on q
NewResolvedPackage(id) ==
    CASE id = "r1" ->
            [deps |-> (<<"p", "Normal">> :> ResolvedDependency)
                      @@ (<<"p", "Development">> :> ResolvedDependency),
             features |-> EmptyMap]
      [] id \in {"r2", "r3"} ->
            [deps |-> (<<"p", "Normal">> :> ResolvedDependency),
             features |-> EmptyMap]
      [] id = "p" ->
            [deps |-> (<<"q", "Normal">> :> ResolvedDependency),
             features |-> ("x" :> OptionalityDefault)]
      [] OTHER -> [deps |-> EmptyMap, features |-> EmptyMap]

\* the keys of the deps maps and of the features maps in BTreeMap order
SortedDepKeys == <<<<"p", "Normal">>, <<"p", "Development">>, <<"q", "Normal">>>>

SortedFeatureNames == <<"x">>

\* ResolvedPackage::iter_deps_with_id_mut: the keys in the range
\* (id, Normal)..=(id, Build)
iter_deps_with_id_mut(rpkg, id) ==
    { key \in DOMAIN rpkg.deps :
        /\ key[1] = id
        /\ DepKindRank("Normal") <= DepKindRank(key[2])
        /\ DepKindRank(key[2]) <= DepKindRank("Build") }

\* what a pass touches: a feature of package id, or the dependency of
\* package id on package name
FeatureUnit(id, name) == [id |-> id, kind |-> "feature", name |-> name]

DepUnit(id, name) == [id |-> id, kind |-> "dep", name |-> name]

\* the units the resolution of a root can touch: the root's own dependency
\* and what lies behind it
Touchable(root) == {DepUnit(root, "p"), FeatureUnit("p", "x"), DepUnit("p", "q")}

\* the call a pass makes on the optionality of an item it touches
CallOn(self, method, arg) ==
    IF method = "required_by" THEN required_by(self, arg)
    ELSE activated_by(self, arg)

\* the loops over resolve.targeted_resolve of mark_required and activate:
\* the features of the touched units, and every dependency edge that
\* iter_deps_with_id_mut yields for them, get the call
TouchUnits(rpkgs, units, method, arg) ==
    [id \in DOMAIN rpkgs |->
        [deps |->
            [key \in DOMAIN rpkgs[id].deps |->
                IF \E u \in units :
                      /\ u.id = id
                      /\ u.kind = "dep"
                      /\ key \in iter_deps_with_id_mut(rpkgs[id], u.name)
                THEN [rpkgs[id].deps[key] EXCEPT
                         !.optionality = CallOn(@, method, arg)]
                ELSE rpkgs[id].deps[key]],
         features |->
            [f \in DOMAIN rpkgs[id].features |->
                IF FeatureUnit(id, f) \in units
                THEN CallOn(rpkgs[id].features[f], method, arg)
                ELSE rpkgs[id].features[f]]]]

\* mutant: the unconditional pass records an activation by "default"
mark_required_as_activation(root_pkg, units, rpkgs) ==
    TouchUnits(rpkgs, units, "activated_by", <<root_pkg, "default">>)

mark_required(root_pkg, units, rpkgs) ==
    TouchUnits(rpkgs, units, "required_by", root_pkg)

\* mutant: the pass leaves every item as it was
activate_skipped(pkg, feature, units, rpkgs) == rpkgs

activate(pkg, feature, units, rpkgs) ==
    TouchUnits(rpkgs, units, "activated_by", <<pkg, feature>>)

\* the members of `set` in the order of the sequence `sorted`
SortedMembers(set, sorted) == SelectSeq(sorted, LAMBDA e : e \in set)

\* the values of the map under the keys `keys`, in that order
RECURSIVE ValuesOf(_, _)
ValuesOf(map, keys) ==
    IF keys = <<>> THEN <<>>
    ELSE <<map[Head(keys)]>> \o ValuesOf(map, Tail(keys))

NonDevKeys(rpkg) == { key \in DOMAIN rpkg.deps : key[2] # "Development" }

\* ResolvedPackage::iter_optionality_mut: the optionality of the edges that
\* are not of kind Development, then of the features
iter_optionality_mut(rpkg) ==
    ValuesOf([key \in NonDevKeys(rpkg) |-> rpkg.deps[key].optionality],
             SortedMembers(NonDevKeys(rpkg), SortedDepKeys))
    \o ValuesOf(rpkg.features,
                SortedMembers(DOMAIN rpkg.features, SortedFeatureNames))

IsOptional(o) == o.tag = "Optional"

\* mutant: only the items that are still Optional are compared
all_eq_among_optional(i) ==
    LET j == SelectSeq(i, IsOptional)
    IN IF j = <<>> THEN TRUE ELSE \A k \in 2..Len(j) : j[k] = j[1]

all_eq(i) ==
    IF i = <<>> THEN TRUE ELSE \A k \in 2..Len(i) : i[k] = i[1]

\* mutant: no item is promoted
Promote_never(optionality, n_root_pkgs) == optionality

\* simplify_optionality, lines 241-252: an Optional item that as many roots
\* require as there are roots becomes Required
Promote(optionality, n_root_pkgs) ==
    IF optionality.tag = "Optional"
       /\ Cardinality(optionality.required_by_pkgs) = n_root_pkgs
    THEN Required
    ELSE optionality

\* mutant: a dev edge keeps its optionality
ForceDev_keep(key, d) == d

\* simplify_optionality, lines 254-258: dev dependencies can't be optional
ForceDev(key, d) ==
    IF key[2] = "Development" THEN [d EXCEPT !.optionality = Required] ELSE d

\* the body of the loop of simplify_optionality over the packages
simplify_rpkg(rpkg, n_root_pkgs) ==
    LET promoted ==
            [deps |->
                [key \in DOMAIN rpkg.deps |->
                    IF key \in NonDevKeys(rpkg)
                    THEN [rpkg.deps[key] EXCEPT
                             !.optionality = Promote(@, n_root_pkgs)]
                    ELSE rpkg.deps[key]],
             features |->
                [f \in DOMAIN rpkg.features |->
                    Promote(rpkg.features[f], n_root_pkgs)]]
        forced ==
            [promoted EXCEPT
                !.deps = [key \in DOMAIN promoted.deps |->
                            ForceDev(key, promoted.deps[key])]]
    IN IF all_eq(iter_optionality_mut(forced))
       THEN [deps |->
                [key \in DOMAIN forced.deps |->
                    IF key \in NonDevKeys(forced)
                    THEN [forced.deps[key] EXCEPT !.optionality = Required]
                    ELSE forced.deps[key]],
             features |-> [f \in DOMAIN forced.features |-> Required]]
       ELSE forced

simplify_optionality(rpkgs, n_root_pkgs) ==
    [id \in DOMAIN rpkgs |-> simplify_rpkg(rpkgs[id], n_root_pkgs)]

(***************************************************************************)
(* Condition rendering.  A BoolExpr is the constant true or the            *)
(* disjunction of its clauses; a clause is the text of a membership test.  *)
(***************************************************************************)
\* BoolExpr::True
BoolTrue == [kind |-> "True", clauses |-> <<>>]

\* BoolExpr::ors
ors(clauses) == [kind |-> "Ors", clauses |-> clauses]

\* the name the generated text gives the root-feature map
RootFeaturesVar == "rootFeatures'"

\* BTreeSet<RootFeature> iterates in this order
SortedRootFeatures ==
    <<<<"r1", "default">>, <<"r1", "f">>, <<"r2", "default">>, <<"r3", "default">>>>

display_root_feature(root_feature) == root_feature[1] \o "/" \o root_feature[2]

\* format!("{} ? {:?}", root_features_var, s): {:?} puts s in quotes
Single(root_features_var, s) == root_features_var \o " ? \"" \o s \o "\""

\* mutant: the roots that require the item get no clause
to_expr_without_required_by(self, root_features_var) ==
    IF self.tag = "Required" THEN BoolTrue
    ELSE LET fs == SortedMembers(self.activated_by_features, SortedRootFeatures)
         IN ors([k \in 1..Len(fs) |->
                    Single(root_features_var, display_root_feature(fs[k]))])

\* Optionality::to_expr
to_expr(self, root_features_var) ==
    IF self.tag = "Required" THEN BoolTrue
    ELSE LET fs == SortedMembers(self.activated_by_features, SortedRootFeatures)
             ps == SortedMembers(self.required_by_pkgs, RootNames)
         IN ors([k \in 1..Len(fs) |->
                    Single(root_features_var, display_root_feature(fs[k]))]
                \o [k \in 1..Len(ps) |-> Single(root_features_var, ps[k])])

\* the conditions of all items of the build plan
RenderAll(rpkgs) ==
    [id \in DOMAIN rpkgs |->
        [deps |->
            [key \in DOMAIN rpkgs[id].deps |->
                to_expr(rpkgs[id].deps[key].optionality, RootFeaturesVar)],
         features |->
            [f \in DOMAIN rpkgs[id].features |->
                to_expr(rpkgs[id].features[f], RootFeaturesVar)]]]

(***************************************************************************)
(* generate_cargo_nix as a state machine.                                  *)
(***************************************************************************)
\* `resolve` is not running
ResolveOff ==
    /\ pc = "off"
    /\ request = [build_platform |-> RawLinux, host_platform |-> RawLinux,
                  packages |-> EmptyMap, initial_requests |-> <<>>]
    /\ build_platform = NoneValue
    /\ host_platform = NoneValue
    /\ may_depending_on = EmptyMap
    /\ req_queue = <<>>
    /\ cur = NoRequest
    /\ depending_on_state = DependingOnStateDefault
    /\ features_enabled = EmptyMap
    /\ result = "none"
    /\ response = EmptyResponse
    /\ spawned = {}
    /\ handled = {}

EngineInit ==
    /\ ResolveOff
    /\ PlatformOff
    /\ epc = "mark"
    /\ root_pkgs \in { SubSeq(RootNames, 1, n) : n \in 1..MaxRoots }
    /\ root_i = 1
    /\ feature_i = 0
    /\ rpkgs_by_id =
          [id \in SeqToSet(root_pkgs) \cup {"p", "q"} |-> NewResolvedPackage(id)]
    /\ rendered = EmptyMap
    /\ marked = {}
    /\ touched = NoPass
    /\ activated = {}

\* lines 212-213: mark_required on the root the loop is at
MarkRequired ==
    /\ epc = "mark"
    /\ \E units \in SUBSET Touchable(root_pkgs[root_i]) :
          /\ rpkgs_by_id' = mark_required(root_pkgs[root_i], units, rpkgs_by_id)
          /\ marked' = marked \cup { <<root_pkgs[root_i], u>> : u \in units }
          /\ touched' = [kind |-> "mark_required", root |-> root_pkgs[root_i],
                         feature |-> "", units |-> units]
    /\ epc' = "activate"
    /\ feature_i' = 0
    /\ UNCHANGED <<root_pkgs, root_i, rendered, activated>>
    /\ UNCHANGED <<resolve_vars, platform_vars>>

\* lines 214-216: activate on the next feature of the root; after the last
\* feature the loop goes to the next root, after the last root it ends
ActivatePass(record) ==
    /\ epc = "activate"
    /\ LET pkg == root_pkgs[root_i]
           feature == all_features(pkg)[feature_i + 1]
           last == feature_i + 1 = Len(all_features(pkg))
       IN /\ \E units \in SUBSET Touchable(pkg) :
                /\ rpkgs_by_id' = activate(pkg, feature, units, rpkgs_by_id)
                /\ touched' = [kind |-> "activate", root |-> pkg,
                               feature |-> feature, units |-> units]
                /\ activated' = IF record
                                THEN activated \cup { <<pkg, feature, u>> : u \in units }
                                ELSE activated
          /\ feature_i' = IF last THEN 0 ELSE feature_i + 1
          /\ root_i' = IF last THEN root_i + 1 ELSE root_i
          /\ epc' = IF ~last THEN "activate"
                    ELSE IF root_i = Len(root_pkgs) THEN "simplify" ELSE "mark"
    /\ UNCHANGED <<root_pkgs, rendered, marked>>
    /\ UNCHANGED <<resolve_vars, platform_vars>>

Activate == ActivatePass(FALSE)

\* the same step with the units of the pass kept in `activated`
ActivateRecorded == ActivatePass(TRUE)

\* line 219
Simplify ==
    /\ epc = "simplify"
    /\ rpkgs_by_id' = simplify_optionality(rpkgs_by_id, Len(root_pkgs))
    /\ epc' = "render"
    /\ UNCHANGED <<root_pkgs, root_i, feature_i, rendered, marked, touched, activated>>
    /\ UNCHANGED <<resolve_vars, platform_vars>>

\* lines 223-231: the build plan is rendered
Render ==
    /\ epc = "render"
    /\ rendered' = RenderAll(rpkgs_by_id)
    /\ epc' = "done"
    /\ UNCHANGED <<root_pkgs, root_i, feature_i, rpkgs_by_id, marked, touched, activated>>
    /\ UNCHANGED <<resolve_vars, platform_vars>>

EngineNext == MarkRequired \/ Activate \/ Simplify \/ Render

EngineSpec == EngineInit /\ [][EngineNext]_vars

\* the engine with the record of what every activate pass touched
RecordedNext == MarkRequired \/ ActivateRecorded \/ Simplify \/ Render

RecordedSpec == EngineInit /\ [][RecordedNext]_vars

EngineTypeOK ==
    /\ epc \in {"mark", "activate", "simplify", "render", "done"}
    /\ \A id \in DOMAIN rpkgs_by_id :
          /\ \A key \in DOMAIN rpkgs_by_id[id].deps :
                rpkgs_by_id[id].deps[key].optionality.tag \in {"Required", "Optional"}
          /\ \A f \in DOMAIN rpkgs_by_id[id].features :
                rpkgs_by_id[id].features[f].tag \in {"Required", "Optional"}

(***************************************************************************)
(* Properties of the condition engine.                                     *)
(***************************************************************************)
\* the items of the resolved packages: <<id, "dep", key>> for a dependency
\* edge and <<id, "feature", name>> for a feature
ItemsOf(rpkgs) ==
    UNION { { <<id, "dep", key>> : key \in DOMAIN rpkgs[id].deps }
            \cup { <<id, "feature", f>> : f \in DOMAIN rpkgs[id].features } :
            id \in DOMAIN rpkgs }

OptionalityOf(rpkgs, item) ==
    IF item[2] = "dep" THEN rpkgs[item[1]].deps[item[3]].optionality
    ELSE rpkgs[item[1]].features[item[3]]

\* the condition of an item in the rendering `conditions`
ConditionIn(conditions, item) ==
    IF item[2] = "dep" THEN conditions[item[1]].deps[item[3]]
    ELSE conditions[item[1]].features[item[3]]

ConditionOf(item) == ConditionIn(rendered, item)

\* the items a pass reaches through the unit u
UnitItems(rpkgs, u) ==
    IF u.kind = "feature" THEN { <<u.id, "feature", u.name>> }
    ELSE { <<u.id, "dep", key>> : key \in iter_deps_with_id_mut(rpkgs[u.id], u.name) }

Roots == SeqToSet(root_pkgs)

\* the <<root, feature>> pairs the per-root loop activates
RootFeaturePairs ==
    UNION { { <<r, f>> : f \in SeqToSet(all_features(r)) } : r \in Roots }

ItemXofP == <<"p", "feature", "x">>

ItemQofP == <<"p", "dep", <<"q", "Normal">>>>

ItemDevOfR1 == <<"r1", "dep", <<"p", "Development">>>>

\* C12: an item whose Optionality is Required is Required after every later
\* step of the run, and a call of required_by, of activated_by or of
\* simplify_optionality on it leaves it Required.
C12_RequiredStaysRequired ==
    [][\A item \in ItemsOf(rpkgs_by_id) :
          OptionalityOf(rpkgs_by_id, item) = Required =>
              /\ OptionalityOf(rpkgs_by_id', item) = Required
              /\ \A r \in Roots :
                    required_by(OptionalityOf(rpkgs_by_id, item), r) = Required
              /\ \A rf \in RootFeaturePairs :
                    activated_by(OptionalityOf(rpkgs_by_id, item), rf) = Required
              /\ OptionalityOf(simplify_optionality(rpkgs_by_id, Len(root_pkgs)),
                               item) = Required]_vars

\* the feature x of p, required by both roots, was promoted and is Required
\* after the step that followed, next to an edge that stayed Optional
C12_Witness ==
    /\ epc = "done"
    /\ Len(root_pkgs) = 2
    /\ OptionalityOf(rpkgs_by_id, ItemXofP) = Required
    /\ OptionalityOf(rpkgs_by_id, ItemQofP).tag = "Optional"
    /\ {<<"r1", FeatureUnit("p", "x")>>, <<"r2", FeatureUnit("p", "x")>>}
          \subseteq marked

\* C13, read at the end of the run: every dependency edge and feature that
\* the unconditional pass of a root touched is Required, for any number of
\* roots.
C13_TouchedIsRequired ==
    epc = "done" =>
        \A m \in marked :
            \A item \in UnitItems(rpkgs_by_id, m[2]) :
                OptionalityOf(rpkgs_by_id, item) = Required

\* C13 as amended: from the unconditional pass of root R on, every edge and
\* feature that pass touched is Required or has R in its required_by set,
\* for the rest of the run; in a workspace with one root it is Required at
\* the end.
C13_TouchedIsRequiredByRoot ==
    /\ \A m \in marked :
          \A item \in UnitItems(rpkgs_by_id, m[2]) :
              \/ OptionalityOf(rpkgs_by_id, item) = Required
              \/ m[1] \in OptionalityOf(rpkgs_by_id, item).required_by_pkgs
    /\ (epc = "done" /\ Len(root_pkgs) = 1) =>
          \A m \in marked :
              \A item \in UnitItems(rpkgs_by_id, m[2]) :
                  OptionalityOf(rpkgs_by_id, item) = Required

\* at the end of a run on two roots the feature x of p, touched by the
\* unconditional pass of r1 only, is Optional and required by r1
C13_Witness ==
    /\ epc = "done"
    /\ Len(root_pkgs) = 2
    /\ <<"r1", FeatureUnit("p", "x")>> \in marked
    /\ <<"r2", FeatureUnit("p", "x")>> \notin marked
    /\ OptionalityOf(rpkgs_by_id, ItemXofP).tag = "Optional"
    /\ OptionalityOf(rpkgs_by_id, ItemXofP).required_by_pkgs = {"r1"}

\* C14: simplify_optionality makes every item whose required_by set is the
\* set of all root packages Required, and a Required item is rendered as
\* the constant true.
C14_CoveragePromotion ==
    [][/\ epc = "simplify" =>
            \A item \in ItemsOf(rpkgs_by_id) :
                OptionalityOf(rpkgs_by_id, item).required_by_pkgs = Roots
                => OptionalityOf(rpkgs_by_id', item) = Required
       /\ epc = "render" =>
            \A item \in ItemsOf(rpkgs_by_id) :
                OptionalityOf(rpkgs_by_id, item) = Required
                => ConditionIn(rendered', item) = BoolTrue]_vars

\* both roots require the edge from p to q, their feature passes activated
\* the feature x of p: the edge is rendered as the constant true, the
\* feature as a disjunction
C14_Witness ==
    /\ epc = "done"
    /\ Len(root_pkgs) = 2
    /\ {<<"r1", DepUnit("p", "q")>>, <<"r2", DepUnit("p", "q")>>} \subseteq marked
    /\ ConditionOf(ItemQofP) = BoolTrue
    /\ ConditionOf(ItemXofP).kind = "Ors"
    /\ Len(ConditionOf(ItemXofP).clauses) = 2

DevItems(rpkgs) ==
    { item \in ItemsOf(rpkgs) : item[2] = "dep" /\ item[3][2] = "Development" }

\* C15: after simplify_optionality every dependency edge of kind
\* Development is Required, whatever its sets were before, and it is
\* rendered as the constant true.
C15_DevEdgesRequired ==
    [][/\ epc = "simplify" =>
            \A item \in DevItems(rpkgs_by_id) :
                OptionalityOf(rpkgs_by_id', item) = Required
       /\ epc = "render" =>
            \A item \in DevItems(rpkgs_by_id) :
                /\ OptionalityOf(rpkgs_by_id, item) = Required
                /\ ConditionIn(rendered', item) = BoolTrue]_vars

\* the dev edge of r1, one of two roots, was touched by the unconditional
\* pass of r1 only, and by a feature pass; it is rendered as the constant
\* true
C15_Witness ==
    /\ epc = "done"
    /\ Len(root_pkgs) = 2
    /\ <<"r1", DepUnit("r1", "p")>> \in marked
    /\ OptionalityOf(rpkgs_by_id, ItemDevOfR1) = Required
    /\ ConditionOf(ItemDevOfR1) = BoolTrue
    /\ OptionalityOf(rpkgs_by_id, ItemXofP).tag = "Optional"

\* the items iter_optionality_mut yields: the edges that are not dev edges,
\* and the features
NonDevItems(rpkgs, id) ==
    { item \in ItemsOf(rpkgs) :
        /\ item[1] = id
        /\ ~(item[2] = "dep" /\ item[3][2] = "Development") }

StillOptional(rpkgs, id) ==
    { item \in NonDevItems(rpkgs, id) : OptionalityOf(rpkgs, item).tag = "Optional" }

\* C16, as the spec states it: after simplify_optionality, in a package
\* whose still-Optional items all carry identical required_by and
\* activated_by sets, those items are Required, whatever the other items of
\* the package are; so no package is left with Optional items that are all
\* equal.
C16_EqualOptionalsCollapse ==
    epc \in {"render", "done"} =>
        \A id \in DOMAIN rpkgs_by_id :
            (\A i, j \in StillOptional(rpkgs_by_id, id) :
                OptionalityOf(rpkgs_by_id, i) = OptionalityOf(rpkgs_by_id, j))
            => StillOptional(rpkgs_by_id, id) = {}

\* C16 as amended: simplify_optionality compares all items of a package
\* that are not dev edges, after the promotion, the Required ones included.
\* If they are all equal they are all Required afterwards; if not, each is
\* what the promotion made of it: an Optional item next to a Required one
\* stays Optional.
C16_AllItemsEqualCollapse ==
    [][epc = "simplify" =>
         \A id \in DOMAIN rpkgs_by_id :
            LET n == Len(root_pkgs)
                after(item) == Promote(OptionalityOf(rpkgs_by_id, item), n)
                items == NonDevItems(rpkgs_by_id, id)
            IN IF \A i, j \in items : after(i) = after(j)
               THEN \A i \in items : OptionalityOf(rpkgs_by_id', i) = Required
               ELSE \A i \in items : OptionalityOf(rpkgs_by_id', i) = after(i)]_vars

\* of two roots only r1 requires the feature x of p and the edge from p to
\* q, so neither was promoted: the items of p, all equal, were collapsed
C16_Witness ==
    /\ epc = "done"
    /\ Len(root_pkgs) = 2
    /\ { m \in marked : m[2].id = "p" }
          = {<<"r1", FeatureUnit("p", "x")>>, <<"r1", DepUnit("p", "q")>>}
    /\ OptionalityOf(rpkgs_by_id, ItemXofP) = Required
    /\ OptionalityOf(rpkgs_by_id, ItemQofP) = Required

\* C17: no Optional item ever has an activated_by entry <<R, f>> whose root
\* R is in its required_by set, and activated_by(<<R, f>>) on an item whose
\* required_by set holds R leaves the item as it is.
C17_NoActivationByRequiringRoot ==
    \A item \in ItemsOf(rpkgs_by_id) :
        LET o == OptionalityOf(rpkgs_by_id, item)
        IN /\ \A rf \in o.activated_by_features : rf[1] \notin o.required_by_pkgs
           /\ \A rf \in RootFeaturePairs :
                 rf[1] \in o.required_by_pkgs => activated_by(o, rf) = o

\* a feature pass of r2 has just touched the feature x of p, which r2
\* requires and which a feature of r1 activates: it got no entry for r2
C17_Witness ==
    /\ touched.kind = "activate"
    /\ touched.root = "r2"
    /\ FeatureUnit("p", "x") \in touched.units
    /\ OptionalityOf(rpkgs_by_id, ItemXofP)
          = Optional({"r2"}, {<<"r1", "f">>})

\* C18: to_expr renders Required as the constant true and Optional as the
\* disjunction of exactly one clause testing "<root>/<feature>" per
\* activated_by entry and one clause testing "<root>" per required_by
\* entry, and of no other clause; the rendered conditions are these.
C18_RenderedClauses ==
    \A item \in ItemsOf(rpkgs_by_id) :
        LET o == OptionalityOf(rpkgs_by_id, item)
            e == to_expr(o, RootFeaturesVar)
        IN /\ (e = BoolTrue) <=> (o = Required)
           /\ o.tag = "Optional" =>
                /\ e.kind = "Ors"
                /\ SeqToSet(e.clauses)
                     = { RootFeaturesVar \o " ? \"" \o rf[1] \o "/" \o rf[2] \o "\"" :
                            rf \in o.activated_by_features }
                       \cup { RootFeaturesVar \o " ? \"" \o r \o "\"" :
                                r \in o.required_by_pkgs }
                /\ Len(e.clauses) = Cardinality(o.activated_by_features)
                                    + Cardinality(o.required_by_pkgs)
           /\ epc = "done" => ConditionOf(item) = e

\* the feature x of p, activated by the feature f of r1 and required by r2,
\* is rendered as the disjunction of the two tests; the edge to q, required
\* by both roots, as the constant true
C18_Witness ==
    /\ epc = "done"
    /\ OptionalityOf(rpkgs_by_id, ItemXofP) = Optional({"r2"}, {<<"r1", "f">>})
    /\ ConditionOf(ItemXofP)
          = [kind |-> "Ors",
             clauses |-> <<"rootFeatures' ? \"r1/f\"", "rootFeatures' ? \"r2\"">>]
    /\ ConditionOf(ItemQofP) = [kind |-> "True", clauses |-> <<>>]

(***************************************************************************)
(* Conversions of OS values: an Os is made from a name (From<T> for Os) or *)
(* from the flags of a raw descriptor (Platform::try_from), and written    *)
(* by Display.                                                             *)
(***************************************************************************)
\* the names From<T> for Os knows
OsNames ==
    {"linux", "windows", "android", "ios", "freebsd", "netbsd", "openbsd", "macos"}

\* mutant: android is a value of its own, without the linux flag
OsFrom_android_apart(s) ==
    CASE s = "linux" -> OsLINUX
      [] s = "windows" -> OsWINDOWS
      [] s = "android" -> {2, 8}
      [] s = "ios" -> OsIOS
      [] s = "freebsd" -> OsFREEBSD
      [] s = "netbsd" -> OsNETBSD
      [] s = "openbsd" -> OsOPENBSD
      [] s = "macos" -> OsMACOS
      [] OTHER -> OsOTHER

\* From<T: AsRef<str>> for Os
OsFrom(s) ==
    CASE s = "linux" -> OsLINUX
      [] s = "windows" -> OsWINDOWS
      [] s = "android" -> OsANDROID
      [] s = "ios" -> OsIOS
      [] s = "freebsd" -> OsFREEBSD
      [] s = "netbsd" -> OsNETBSD
      [] s = "openbsd" -> OsOPENBSD
      [] s = "macos" -> OsMACOS
      [] OTHER -> OsOTHER

\* Display for Os: the first branch whose flags the value contains
OsDisplay(self) ==
    IF OsContains(self, OsANDROID) THEN "android"
    ELSE IF OsContains(self, OsWINDOWS) THEN "windows"
    ELSE IF OsContains(self, OsLINUX) THEN "linux"
    ELSE IF OsContains(self, OsIOS) THEN "ios"
    ELSE IF OsContains(self, OsMACOS) THEN "macos"
    ELSE IF OsContains(self, OsFREEBSD) THEN "freebsd"
    ELSE IF OsContains(self, OsNETBSD) THEN "netbsd"
    ELSE ""

\* the descriptors with every combination of the nine OS flags
RawOsInputs ==
    { [RawOdd EXCEPT !.is_linux = f[1], !.is_android = f[2], !.is_freebsd = f[3],
                     !.is_netbsd = f[4], !.is_macos = f[5], !.is_windows = f[6],
                     !.is_ios = f[7], !.is_openbsd = f[8], !.is_unix = f[9]] :
        f \in [1..9 -> BOOLEAN] }

(***************************************************************************)
(* Conversions of Endianness, Env, PointerWidth and Family.  A string is   *)
(* a sequence of characters; "TAB", "CR" and "LF" stand for the control    *)
(* characters and "U+E9" for a character outside ASCII.                    *)
(***************************************************************************)
StrLittle == <<"l", "i", "t", "t", "l", "e">>
StrBig == <<"b", "i", "g">>
StrGnu == <<"g", "n", "u">>
StrMusl == <<"m", "u", "s", "l">>
StrMsvc == <<"m", "s", "v", "c">>
Str32 == <<"3", "2">>
Str64 == <<"6", "4">>
StrUnix == <<"u", "n", "i", "x">>
StrWindows == <<"w", "i", "n", "d", "o", "w", "s">>

\* char::escape_default of one character
EscapeChar(c) ==
    CASE c = "TAB" -> <<"\\", "t">>
      [] c = "CR" -> <<"\\", "r">>
      [] c = "LF" -> <<"\\", "n">>
      [] c = "'" -> <<"\\", "'">>
      [] c = "\"" -> <<"\\", "\"">>
      [] c = "\\" -> <<"\\", "\\">>
      [] c = "U+E9" -> <<"\\", "u", "{", "e", "9", "}">>
      [] OTHER -> <<c>>

\* str::escape_default: every character escaped in turn
RECURSIVE escape_default(_)
escape_default(s) ==
    IF s = <<>> THEN <<>> ELSE EscapeChar(Head(s)) \o escape_default(Tail(s))

\* the character an escape sequence `\c` stands for
UnescapeChar(c) ==
    CASE c = "t" -> "TAB"
      [] c = "r" -> "CR"
      [] c = "n" -> "LF"
      [] OTHER -> c

\* cfg::unescape_str: a backslash and the character after it become the
\* character they stand for, every other character is kept
RECURSIVE unescape_str(_)
unescape_str(s) ==
    IF s = <<>> THEN <<>>
    ELSE IF Head(s) = "\\" /\ Len(s) >= 2
         THEN <<UnescapeChar(s[2])>> \o unescape_str(Tail(Tail(s)))
         ELSE <<Head(s)>> \o unescape_str(Tail(s))

Variant(tag) == [tag |-> tag, other |-> <<>>]

Other(s) == [tag |-> "Other", other |-> s]

\* From<T: AsRef<str>> for Endianness
EndiannessFrom(s) ==
    CASE s = StrLittle -> Variant("Little")
      [] s = StrBig -> Variant("Big")
      [] OTHER -> Other(unescape_str(s))

\* Display for Endianness
EndiannessDisplay(self) ==
    CASE self.tag = "Little" -> StrLittle
      [] self.tag = "Big" -> StrBig
      [] OTHER -> escape_default(self.other)

\* From<T: AsRef<str>> for Env
EnvFrom(s) ==
    CASE s = <<>> \/ s = StrGnu -> Variant("Gnu")
      [] s = StrMusl -> Variant("Musl")
      [] s = StrMsvc -> Variant("Msvc")
      [] OTHER -> Other(unescape_str(s))

\* Display for Env
EnvDisplay(self) ==
    CASE self.tag = "Gnu" -> StrGnu
      [] self.tag = "Musl" -> StrMusl
      [] self.tag = "Msvc" -> StrMsvc
      [] OTHER -> escape_default(self.other)

\* From<T: AsRef<str>> for PointerWidth
PointerWidthFrom(s) ==
    CASE s = Str32 -> Variant("I32")
      [] s = Str64 -> Variant("I64")
      [] OTHER -> Other(unescape_str(s))

\* Display for PointerWidth
PointerWidthDisplay(self) ==
    CASE self.tag = "I32" -> Str32
      [] self.tag = "I64" -> Str64
      [] OTHER -> escape_default(self.other)

\* From<T: AsRef<str>> for Family
FamilyFrom(s) ==
    CASE s = StrUnix -> Variant("Unix")
      [] s = StrWindows -> Variant("Windows")
      [] OTHER -> Other(unescape_str(s))

\* Display for Family
FamilyDisplay(self) ==
    CASE self.tag = "Unix" -> StrUnix
      [] self.tag = "Windows" -> StrWindows
      [] OTHER -> escape_default(self.other)

EnumKinds == {"Endianness", "Env", "PointerWidth", "Family"}

EnumFrom(kind, s) ==
    CASE kind = "Endianness" -> EndiannessFrom(s)
      [] kind = "Env" -> EnvFrom(s)
      [] kind = "PointerWidth" -> PointerWidthFrom(s)
      [] kind = "Family" -> FamilyFrom(s)

EnumDisplay(kind, self) ==
    CASE kind = "Endianness" -> EndiannessDisplay(self)
      [] kind = "Env" -> EnvDisplay(self)
      [] kind = "PointerWidth" -> PointerWidthDisplay(self)
      [] kind = "Family" -> FamilyDisplay(self)

\* the names some enumeration knows
KnownNames ==
    {StrLittle, StrBig, StrGnu, StrMusl, StrMsvc, Str32, Str64, StrUnix, StrWindows}

\* names no enumeration knows: plain text, text with an escaped newline,
\* with an escaped backslash, with a quote and with a character outside
\* ASCII; and the empty string
UnknownNames ==
    {<<"s", "g", "x">>, <<"a", "\\", "n", "b">>, <<"a", "\\", "\\", "b">>,
     <<"i", "t", "'", "s">>, <<"U+E9">>, <<>>}

EnumInputs ==
    { [kind |-> k, raw |-> s] : k \in EnumKinds, s \in KnownNames \cup UnknownNames }

(***************************************************************************)
(* Evaluation of a target-block key against a platform and a feature list, *)
(* as the handlers do it outside the resolver loop's bookkeeping.          *)
(***************************************************************************)
CfgKeys == {KeyUnix, KeyWindows, KeyAny, KeyAll, KeyNot, KeyFeatureX, KeyMalformed}

CfgFeatures == {"x", "y"}

CfgInputs ==
    { [kind |-> "cfg", key |-> k, raw |-> raw, features |-> fs] :
        k \in CfgKeys, raw \in {RawLinux, RawWindows, RawOdd}, fs \in SUBSET CfgFeatures }

\* mutant: the feature list is not handed to the predicate
EvalKey_without_features(target_spec, platform, crate_features) ==
    LET parsed == parse_cfg(target_spec)
    IN [parsed |-> parsed.ok,
        value |-> parsed.ok /\ test(parsed.pred, with_features(platform, {}))]

\* `parse_cfg(target_spec).ok()` and, when it parsed,
\* `pred.test(&CratePlatform::with_features(&platform, crate_features))`
EvalKey(target_spec, platform, crate_features) ==
    LET parsed == parse_cfg(target_spec)
    IN [parsed |-> parsed.ok,
        value |-> parsed.ok
                  /\ test(parsed.pred, with_features(platform, crate_features))]

(***************************************************************************)
(* Deserialization of a RawPlatform from a JSON object.  The object is the *)
(* set of the fields it has (nested fields by their path) and the value of *)
(* libc; the values of the other fields have the types of the struct.      *)
(***************************************************************************)
\* the fields of RawPlatform without #[serde(default)], in declaration order
RequiredFields ==
    <<"config", "is32bit", "is64bit", "isAndroid", "isBigEndian", "isFreeBSD",
      "isiOS", "isLinux", "isLittleEndian", "isMacOS", "isNetBSD", "isOpenBSD",
      "isUnix", "isWindows", "parsed.cpu.name", "parsed.vendor.name">>

\* the fields of the input of tests::deserialize_works that RawPlatform lacks
UnknownFields == {"isAarch32", "isAarch64", "isArm", "isBSD", "isDarwin", "isMips"}

\* the first field of `required` that `fields` lacks, "" when there is none
RECURSIVE FirstMissing(_, _)
FirstMissing(required, fields) ==
    IF required = <<>> THEN ""
    ELSE IF Head(required) \notin fields THEN Head(required)
    ELSE FirstMissing(Tail(required), fields)

\* mutant: libc is a required field
Deserialize_libc_required(input) ==
    LET missing == FirstMissing(RequiredFields \o <<"libc">>, input.fields)
    IN IF missing # "" THEN [ok |-> FALSE, libc |-> "", missing |-> missing]
       ELSE [ok |-> TRUE, libc |-> input.libc, missing |-> ""]

\* #[derive(Deserialize)] for RawPlatform: a missing field without a default
\* is an error, libc takes String::default() when absent, and a field the
\* struct does not have is ignored
Deserialize(input) ==
    LET missing == FirstMissing(RequiredFields, input.fields)
    IN IF missing # "" THEN [ok |-> FALSE, libc |-> "", missing |-> missing]
       ELSE [ok |-> TRUE,
             libc |-> IF "libc" \in input.fields THEN input.libc ELSE "",
             missing |-> ""]

\* objects with all the required fields or without one of them, with or
\* without libc, and with none, one or all of the unknown fields
DeInputs ==
    { [kind |-> "json",
       fields |-> ((SeqToSet(RequiredFields) \ drop) \cup extra)
                  \cup (IF libc = "" THEN {} ELSE {"libc"}),
       libc |-> libc] :
        drop \in {{}} \cup { {f} : f \in SeqToSet(RequiredFields) },
        extra \in {{}, UnknownFields} \cup { {f} : f \in UnknownFields },
        libc \in {"", "glibc", "musl"} }

OsInputs ==
    { [kind |-> "name", name |-> s, raw |-> RawOdd] :
        s \in OsNames \cup {"solaris", ""} }
    \cup { [kind |-> "raw", name |-> "", raw |-> raw] : raw \in RawOsInputs }

PlatformInit ==
    /\ ResolveOff
    /\ EngineOff
    /\ WriteOff
    /\ ppc = "input"
    /\ \E input \in OsInputs \cup EnumInputs \cup CfgInputs \cup DeInputs :
          /\ os_input = IF input \in OsInputs THEN input ELSE NoOsInput
          /\ enum_input = IF input \in EnumInputs THEN input ELSE NoEnumInput
          /\ cfg_input = IF input \in CfgInputs THEN input ELSE NoCfgInput
          /\ de_input = IF input \in DeInputs THEN input ELSE NoDeInput
    /\ os_value = {}
    /\ os_display = ""
    /\ enum_value = NoEnumValue
    /\ enum_display = <<>>
    /\ cfg_result = NoCfgResult
    /\ de_result = NoDeResult

\* Os::from(name)
OsFromName ==
    /\ ppc = "input"
    /\ os_input.kind = "name"
    /\ os_value' = OsFrom(os_input.name)
    /\ ppc' = "converted"
    /\ UNCHANGED <<os_input, os_display, enum_vars, cfg_vars, de_vars>>
    /\ UNCHANGED <<resolve_vars, engine_vars, write_vars>>

\* Platform::try_from(raw), the `os` field of the result
OsFromFlags ==
    /\ ppc = "input"
    /\ os_input.kind = "raw"
    /\ os_value' = PlatformTryFrom(os_input.raw).platform.os.value
    /\ ppc' = "converted"
    /\ UNCHANGED <<os_input, os_display, enum_vars, cfg_vars, de_vars>>
    /\ UNCHANGED <<resolve_vars, engine_vars, write_vars>>

\* format!("{}", os)
OsDisplayed ==
    /\ ppc = "converted"
    /\ os_input.kind # "None"
    /\ os_display' = OsDisplay(os_value)
    /\ ppc' = "displayed"
    /\ UNCHANGED <<os_input, os_value, enum_vars, cfg_vars, de_vars>>
    /\ UNCHANGED <<resolve_vars, engine_vars, write_vars>>

\* Endianness::from(raw), Env::from(raw), PointerWidth::from(raw) or
\* Family::from(raw)
EnumFromStr ==
    /\ ppc = "input"
    /\ enum_input.kind # "None"
    /\ enum_value' = EnumFrom(enum_input.kind, enum_input.raw)
    /\ ppc' = "converted"
    /\ UNCHANGED <<enum_input, enum_display, os_vars, cfg_vars, de_vars>>
    /\ UNCHANGED <<resolve_vars, engine_vars, write_vars>>

\* format!("{}", value) of the enumeration value
EnumDisplayed ==
    /\ ppc = "converted"
    /\ enum_input.kind # "None"
    /\ enum_display' = EnumDisplay(enum_input.kind, enum_value)
    /\ ppc' = "displayed"
    /\ UNCHANGED <<enum_input, enum_value, os_vars, cfg_vars, de_vars>>
    /\ UNCHANGED <<resolve_vars, engine_vars, write_vars>>

\* a target-block key evaluated for a platform made by Platform::try_from
CfgTested ==
    /\ ppc = "input"
    /\ cfg_input.kind # "None"
    /\ cfg_result' = EvalKey(cfg_input.key, PlatformTryFrom(cfg_input.raw).platform,
                             cfg_input.features)
    /\ ppc' = "tested"
    /\ UNCHANGED <<cfg_input, os_vars, enum_vars, de_vars>>
    /\ UNCHANGED <<resolve_vars, engine_vars, write_vars>>

\* serde_json::from_str::<RawPlatform>(input)
Deserialized ==
    /\ ppc = "input"
    /\ de_input.kind # "None"
    /\ de_result' = Deserialize(de_input)
    /\ ppc' = "deserialized"
    /\ UNCHANGED <<de_input, os_vars, enum_vars, cfg_vars>>
    /\ UNCHANGED <<resolve_vars, engine_vars, write_vars>>

PlatformNext ==
    \/ OsFromName \/ OsFromFlags \/ OsDisplayed
    \/ EnumFromStr \/ EnumDisplayed
    \/ CfgTested
    \/ Deserialized

PlatformSpec == PlatformInit /\ [][PlatformNext]_vars

\* the u16 value of a set of bits
RECURSIVE OsBits(_)
OsBits(flags) ==
    IF flags = {} THEN 0
    ELSE LET b == CHOOSE x \in flags : TRUE
         IN 2^b + OsBits(flags \ {b})

\* the flags that tell the OS named s from the others: its value without
\* the unix flag, for android also without the linux flag
DistinguishingFlags(s) ==
    OsFrom(s) \ (OsUNIX \cup (IF s = "android" THEN OsFrom("linux") ELSE {}))

\* C19: the value of android contains the linux and the unix flags; linux,
\* ios, freebsd, netbsd, openbsd and macos contain the unix flag; windows
\* does not; and no named value other than android contains the
\* distinguishing flag of another named OS.
C19_OsFlagInclusions ==
    /\ OsContains(OsFrom("android"), OsFrom("linux"))
    /\ OsContains(OsFrom("android"), OsUNIX)
    /\ \A s \in {"linux", "ios", "freebsd", "netbsd", "openbsd", "macos"} :
          OsContains(OsFrom(s), OsUNIX)
    /\ ~OsContains(OsFrom("windows"), OsUNIX)
    /\ \A s \in OsNames \ {"android"} :
          \A t \in OsNames \ {s} :
              /\ DistinguishingFlags(t) # {}
              /\ ~OsContains(OsFrom(s), DistinguishingFlags(t))
    /\ (ppc # "input" /\ os_input.kind = "name") =>
          /\ os_value = OsFrom(os_input.name)
          /\ os_input.name = "android" => OsContains(os_value, OsLINUX)

\* the value made from "android" is 0b0100000101: it contains the flags of
\* linux, and it is displayed as android
C19_Witness ==
    /\ ppc = "displayed"
    /\ os_input.name = "android"
    /\ OsBits(os_value) = 261
    /\ OsBits(OsLINUX) = 257
    /\ OsBits(OsUNIX) = 256
    /\ OsContains(os_value, OsLINUX)
    /\ os_display = "android"

\* C20: for every name From<T> for Os knows, the value made from the name
\* is displayed as that name; and only a value that contains the flags of
\* no named OS is displayed as empty text.
C20_DisplayRoundTrip ==
    ppc = "displayed" =>
        /\ (os_input.kind = "name" /\ os_input.name \in OsNames)
              => os_display = os_input.name
        /\ os_display = ""
              => \A s \in OsNames : ~OsContains(os_value, OsFrom(s))

\* C20 without openbsd: the other seven names are displayed as themselves
C20_DisplayRoundTripButOpenbsd ==
    (/\ ppc = "displayed"
     /\ os_input.kind = "name"
     /\ os_input.name \in OsNames \ {"openbsd"})
    => os_display = os_input.name

\* the raw string was parsed and the value displayed
EnumRoundTripDone == ppc = "displayed" /\ enum_input.kind # "None"

\* the raw strings From maps to a variant other than Other
NamesVariant(kind, s) == EnumFrom(kind, s).tag # "Other"

\* C21: for Endianness, Env, PointerWidth and Family, the value parsed from
\* a raw string is displayed as that raw string, for every raw string From
\* maps to a known variant and for every string kept in Other.
C21_ParseDisplayRoundTrip ==
    EnumRoundTripDone => enum_display = enum_input.raw

\* C21 for the names Display writes and for the fallback strings in which
\* escape_default finds nothing to escape that was not escaped in the raw
\* string: these are displayed as they were given
C21_RoundTripOfCanonicalNames ==
    (/\ EnumRoundTripDone
     /\ enum_input.raw \notin {<<>>, <<"i", "t", "'", "s">>, <<"U+E9">>})
    => enum_display = enum_input.raw

\* Env::from("") is Gnu and is displayed as "gnu"
C21_EmptyEnvDisplayedAsGnu ==
    /\ EnumRoundTripDone
    /\ enum_input = [kind |-> "Env", raw |-> <<>>]
    /\ NamesVariant("Env", enum_input.raw)
    /\ enum_value = Variant("Gnu")
    /\ enum_display = StrGnu

\* the platform the key of cfg_input is evaluated for
CfgPlatform == PlatformTryFrom(cfg_input.raw).platform

\* C22: for a platform with unix true and windows false, any(unix, windows)
\* is true, all(unix, windows) is false and not(windows) is true; and
\* feature = "x" is true exactly when "x" is in the feature list handed to
\* the evaluation, whatever the platform is.
C22_PredicateSemantics ==
    ppc = "tested" =>
        /\ cfg_input.key # KeyMalformed => cfg_result.parsed
        /\ (/\ OsContains(CfgPlatform.os.value, OsUNIX)
            /\ ~OsContains(CfgPlatform.os.value, OsWINDOWS))
           => /\ cfg_input.key = KeyAny => cfg_result.value
              /\ cfg_input.key = KeyAll => ~cfg_result.value
              /\ cfg_input.key = KeyNot => cfg_result.value
        /\ cfg_input.key = KeyFeatureX
           => (cfg_result.value <=> "x" \in cfg_input.features)

\* on the linux platform, all(unix, windows) has parsed and tests false
\* although unix is true
C22_Witness ==
    /\ ppc = "tested"
    /\ cfg_input.raw = RawLinux
    /\ OsContains(CfgPlatform.os.value, OsUNIX)
    /\ ~OsContains(CfgPlatform.os.value, OsWINDOWS)
    /\ cfg_input.key = KeyAll
    /\ cfg_result = [parsed |-> TRUE, value |-> FALSE]

\* C23: a JSON object with config, the width, endianness and OS flags and
\* the parsed cpu and vendor names deserializes as a RawPlatform, also
\* when it has no libc field (libc is then empty) and when it has fields
\* the struct does not know.
C23_DeserializeTolerant ==
    (/\ ppc = "deserialized"
     /\ SeqToSet(RequiredFields) \subseteq de_input.fields)
    => /\ de_result.ok
       /\ "libc" \notin de_input.fields => de_result.libc = ""
       /\ "libc" \in de_input.fields => de_result.libc = de_input.libc

\* the input of tests::deserialize_works: no libc, six unknown fields
C23_Witness ==
    /\ ppc = "deserialized"
    /\ de_input.fields = SeqToSet(RequiredFields) \cup UnknownFields
    /\ "libc" \notin de_input.fields
    /\ Cardinality(de_input.fields) = 22
    /\ de_result = [ok |-> TRUE, libc |-> "", missing |-> ""]

\* the items the unconditional pass of root has touched
MarkedItems(root) ==
    UNION { UnitItems(rpkgs_by_id, m[2]) : m \in { n \in marked : n[1] = root } }

\* the items the pass of root with only `feature` enabled has touched
ActivatedItems(root, feature) ==
    UNION { UnitItems(rpkgs_by_id, a[3]) :
              a \in { b \in activated : b[1] = root /\ b[2] = feature } }

\* C24: after the loop over the roots and before simplify_optionality, for
\* every item, root R and feature f of R: <<R, f>> is in the item's
\* activated_by_features exactly when the pass of R with only f enabled
\* touched the item and the unconditional pass of R did not.
C24_ActivatedByExactly ==
    epc = "simplify" =>
        \A item \in ItemsOf(rpkgs_by_id) :
            /\ IsOptional(OptionalityOf(rpkgs_by_id, item))
            /\ \A rf \in RootFeaturePairs :
                  rf \in OptionalityOf(rpkgs_by_id, item).activated_by_features
                  <=> /\ item \in ActivatedItems(rf[1], rf[2])
                      /\ item \notin MarkedItems(rf[1])

\* the pass of r1 with f touched both x of p and the edge p -> q, the
\* unconditional pass of r1 touched only the edge: x is activated by
\* <<r1, f>>, the edge is not
C24_Witness ==
    /\ epc = "simplify"
    /\ {ItemXofP, ItemQofP} \subseteq ActivatedItems("r1", "f")
    /\ ItemQofP \in MarkedItems("r1")
    /\ ItemXofP \notin MarkedItems("r1")
    /\ <<"r1", "f">> \in OptionalityOf(rpkgs_by_id, ItemXofP).activated_by_features
    /\ <<"r1", "f">> \notin OptionalityOf(rpkgs_by_id, ItemQofP).activated_by_features

\* the field of a manifest or of a target block that holds the specs whose
\* edges go to the map `kind`
SpecField(kind) ==
    CASE kind = "depending_on" -> "dependencies"
      [] kind = "build_depending_on" -> "build_dependencies"
      [] kind = "dev_depending_on" -> "dev_dependencies"

\* the DepSpecMaps of p for `kind`: the top-level one and those of the
\* target blocks
SpecMaps(p, kind) ==
    {Packages[p].manifest[SpecField(kind)]}
    \cup { Packages[p].manifest.target[k][SpecField(kind)] :
             k \in DOMAIN Packages[p].manifest.target }

\* the set of role `target` that the map `kind` of the state `state`
\* records for package p
RecordedIn(state, kind, p, target) ==
    IF p \in DOMAIN state[kind] THEN RoleSet(state[kind][p], target) ELSE {}

\* the set the step leaves for p and `target` in the map `kind`
RecordedAfter(kind, p, target) == RecordedIn(depending_on_state', kind, p, target)

\* the edges of p that the step has added to the map `kind`, in either role
AddedEdges(kind, p) ==
    UNION { RecordedAfter(kind, p, t) \ Recorded(kind, p, t) : t \in TargetPlatform }

\* the step is the EnablePackage handler run on a package of the package set
EnablePackageStep ==
    HandlerStep /\ cur.kind = "EnablePackage" /\ cur.package_id \in DOMAIN Packages

\* C25: the EnablePackage handler run on (p, role, use_dev) leaves in p's
\* sets for `role` an edge to every non-optional normal and build dependency
\* of p that p's resolved dependency list names, and to the non-optional dev
\* dependencies when use_dev is true; it adds no dev edge when use_dev is
\* false and no edge that comes from an optional spec only.
C25_EnablePackageEdges ==
    [][EnablePackageStep =>
        LET p == cur.package_id
            manifest == Packages[p].manifest
        IN /\ NonOptionalTargets(p, manifest.dependencies)
                 \subseteq RecordedAfter("depending_on", p, cur.target)
           /\ NonOptionalTargets(p, manifest.build_dependencies)
                 \subseteq RecordedAfter("build_depending_on", p, cur.target)
           /\ cur.use_dev_deps =>
                 NonOptionalTargets(p, manifest.dev_dependencies)
                    \subseteq RecordedAfter("dev_depending_on", p, cur.target)
           /\ ~cur.use_dev_deps => AddedEdges("dev_depending_on", p) = {}
           /\ \A kind \in MapKinds :
                 AddedEdges(kind, p)
                    \subseteq UNION { NonOptionalTargets(p, specs) :
                                        specs \in SpecMaps(p, kind) }]_vars

\* EnablePackage(A, Host, use_dev = true) is the only request handled so
\* far: the edge to the normal dependency C and the edge to the dev
\* dependency M are recorded, none to the optional dependency B
C25_Witness ==
    /\ pc = "loop"
    /\ handled = {EnablePackageReq("A", "Host", TRUE)}
    /\ "b" \in DOMAIN Packages["A"].manifest.dependencies
    /\ Packages["A"].manifest.dependencies["b"].optional
    /\ "C" \in Recorded("depending_on", "A", "Host")
    /\ "M" \in Recorded("dev_depending_on", "A", "Host")
    /\ "B" \notin UNION { Recorded(kind, "A", t) : kind \in MapKinds, t \in TargetPlatform }

\* the packages the initial request list names with use-dev-dependencies set
DevRequested ==
    { request.initial_requests[i].package_id :
        i \in { j \in 1..Len(request.initial_requests) :
                  request.initial_requests[j].use_dev_deps } }

\* C26: every EnablePackage request a handler enqueues has use_dev_deps
\* false, and the dev depending-on map gains edges only for packages that
\* the initial request list names with use-dev-dependencies set.
C26_DevOnlyForInitialRequests ==
    [][HandlerStep =>
        /\ \A r \in Appended(req_queue, req_queue') :
              r.kind = "EnablePackage" => ~r.use_dev_deps
        /\ \A p \in DOMAIN depending_on_state'.dev_depending_on :
              AddedEdges("dev_depending_on", p) # {} => p \in DevRequested]_vars

\* A was requested with its dev dependencies; B and C, which have dev
\* dependencies of their own, were enabled through edges; the run returned
\* with dev edges recorded for A alone
C26_Witness ==
    /\ result = "ok"
    /\ DevRequested = {"A"}
    /\ EnablePackageReq("B", "Host", FALSE) \in handled
    /\ EnablePackageReq("C", "Host", FALSE) \in handled
    /\ Packages["B"].manifest.dev_dependencies # EmptyMap
    /\ Packages["C"].manifest.dev_dependencies # EmptyMap
    /\ DOMAIN depending_on_state.dev_depending_on = {"A"}
    /\ "M" \in Recorded("dev_depending_on", "A", "Host")

\* the spec asks for "default" of its target: by default_features or by its
\* feature list
AsksDefault(spec) == spec.default_features \/ "default" \in SeqToSet(spec.features)

\* a spec of p, of any kind, at top level or in a target block, has the
\* target d and asks for "default"
DefaultAskedBy(p, d) ==
    \E kind \in MapKinds : \E specs \in SpecMaps(p, kind) : \E n \in DOMAIN specs :
        /\ n \in DOMAIN may_depending_on[p]
        /\ may_depending_on[p][n] = d
        /\ AsksDefault(specs[n])

\* the same, with the edge from p to d recorded in the map of that kind
DefaultAskedOverEdge(p, d) ==
    \E kind \in MapKinds : \E specs \in SpecMaps(p, kind) : \E n \in DOMAIN specs :
        /\ n \in DOMAIN may_depending_on[p]
        /\ may_depending_on[p][n] = d
        /\ AsksDefault(specs[n])
        /\ \E t \in TargetPlatform : d \in Recorded(kind, p, t)

\* the feature named `feature` of p implies "default"
ImpliesDefault(p, feature) ==
    /\ feature \in DOMAIN Packages[p].manifest.features
    /\ "default" \in SeqToSet(Packages[p].manifest.features[feature])

\* every package with "default" enabled has it from the initial request
\* list, from a feature of its own that implies it, or from a spec that asks
\* for it and whose edge is recorded
DefaultJustified ==
    \A d \in DOMAIN features_enabled :
        "default" \in features_enabled[d] =>
            \/ \E i \in 1..Len(request.initial_requests) :
                  /\ request.initial_requests[i].package_id = d
                  /\ "default" \in SeqToSet(request.initial_requests[i].features)
            \/ \E f \in DOMAIN Packages[d].manifest.features : ImpliesDefault(d, f)
            \/ \E p \in DOMAIN Packages : DefaultAskedOverEdge(p, d)

\* C27: a handler enqueues EnableFeature(d, role, "default") only for a spec
\* with target d that has default_features set or lists "default", for a
\* feature of the package itself that implies "default", or for a
\* dep/default request; so a package that only specs with default_features
\* false lead to, and for which neither the initial requests nor a feature
\* list nor an implication names "default", never has "default" enabled.
C27_DefaultOnlyWhenAsked ==
    [][/\ DefaultJustified'
       /\ HandlerStep =>
             \A r \in Appended(req_queue, req_queue') :
                 (r.kind = "EnableFeature" /\ r.feature = "default") =>
                     /\ cur.package_id \in DOMAIN Packages
                     /\ \/ DefaultAskedBy(cur.package_id, r.package_id)
                        \/ /\ cur.kind = "EnableFeature"
                           /\ r.package_id = cur.package_id
                           /\ ImpliesDefault(cur.package_id, cur.feature)
                        \/ /\ cur.kind = "EnableFeature"
                           /\ DEP_FEATURE(cur.feature).matched
                           /\ DEP_FEATURE(cur.feature).dep_feature = "default"]_vars

\* C was enabled through A's spec c alone, which has default_features
\* false; B, whose spec c asks for "default", was not reached; the run
\* returned with no feature enabled for C
C27_Witness ==
    /\ result = "ok"
    /\ ~Packages["A"].manifest.dependencies["c"].default_features
    /\ EnablePackageReq("C", "Host", FALSE) \in handled
    /\ "C" \in Recorded("depending_on", "A", "Host")
    /\ \A kind \in MapKinds : "B" \notin DOMAIN depending_on_state[kind]
    /\ DefaultAskedBy("B", "C")
    /\ "C" \notin DOMAIN features_enabled

\* the features enabled for p once the step is done: for an EnableFeature
\* request this is `current_features`, taken after the insertion
EnabledAfter(p) ==
    IF p \in DOMAIN features_enabled' THEN features_enabled'[p] ELSE {}

\* the target-block keys of p that are not the config string of the role's
\* platform and that parse as a predicate
PredicateKeys(p, target) ==
    { k \in DOMAIN Packages[p].manifest.target :
        k # PlatformOf(target).config /\ parse_cfg(k).ok }

\* the predicate of key k is true for the role's platform and the features
\* enabled for p when the request is processed
PredicateHolds(k, p, target) ==
    test(parse_cfg(k).pred, with_features(PlatformOf(target), EnabledAfter(p)))

\* C28: a target block whose key is not the role's config string is applied
\* when its predicate is true for the role's platform and the features
\* enabled for the package at the moment the request is processed: an
\* EnablePackage request then records the block's non-optional
\* dependencies, an EnableFeature request that names a dependency of the
\* block records that dependency.
C28_BlocksUseEnabledFeatures ==
    [][(HandlerStep /\ cur.package_id \in DOMAIN Packages) =>
        LET p == cur.package_id
            blocks == Packages[p].manifest.target
        IN \A k \in PredicateKeys(p, cur.target) :
              PredicateHolds(k, p, cur.target) =>
                 IF cur.kind = "EnablePackage"
                 THEN /\ NonOptionalTargets(p, blocks[k].dependencies)
                            \subseteq RecordedAfter("depending_on", p, cur.target)
                      /\ NonOptionalTargets(p, blocks[k].build_dependencies)
                            \subseteq RecordedAfter("build_depending_on", p, cur.target)
                 ELSE (/\ cur.feature \in DOMAIN blocks[k].dependencies
                       /\ cur.feature \in DOMAIN may_depending_on[p])
                      => may_depending_on[p][cur.feature]
                            \in RecordedAfter("depending_on", p, cur.target)]_vars

\* C28 for EnableFeature requests alone
C28_FeatureRequestsUseEnabledFeatures ==
    [][(HandlerStep /\ cur.kind = "EnableFeature" /\ cur.package_id \in DOMAIN Packages) =>
        LET p == cur.package_id
            blocks == Packages[p].manifest.target
        IN \A k \in PredicateKeys(p, cur.target) :
              (/\ PredicateHolds(k, p, cur.target)
               /\ cur.feature \in DOMAIN blocks[k].dependencies
               /\ cur.feature \in DOMAIN may_depending_on[p])
              => may_depending_on[p][cur.feature]
                    \in RecordedAfter("depending_on", p, cur.target)]_vars

\* A was enabled in the Build role after its feature x was enabled, and the
\* dependency m of the block keyed cfg(feature = "x") is not recorded
C28_BlockSkippedThoughFeatureEnabled ==
    /\ pc = "loop"
    /\ EnablePackageReq("A", "Build", FALSE) \in handled
    /\ EnableFeatureReq("A", "Host", "x") \in handled
    /\ "x" \in features_enabled["A"]
    /\ "m" \in DOMAIN Packages["A"].manifest.target[KeyFeatureX].dependencies
    /\ "M" \notin Recorded("depending_on", "A", "Build")

\* the step is the EnableFeature handler run on a package of the package set
EnableFeatureStep ==
    HandlerStep /\ cur.kind = "EnableFeature" /\ cur.package_id \in DOMAIN Packages

\* the requests for the features that `feature` implies as a key of p's
\* feature map
ImpliedBy(p, target, feature) ==
    IF feature \in DOMAIN Packages[p].manifest.features
    THEN { EnableFeatureReq(p, target, f) :
             f \in SeqToSet(Packages[p].manifest.features[feature]) }
    ELSE {}

\* the feature name stands for a dependency: it has the owner/name form or
\* it is the name of a resolved dependency of p
NamesDependency(p, feature) ==
    DEP_FEATURE(feature).matched \/ feature \in DOMAIN may_depending_on[p]

\* C29, as the spec states it: the three readings of a feature name are
\* exclusive, so for a name that stands for a dependency the handler
\* enqueues none of the features the name implies as a feature key.
C29_ExclusivePriority ==
    [][EnableFeatureStep =>
        (NamesDependency(cur.package_id, cur.feature) =>
            Appended(req_queue, req_queue')
               \cap ImpliedBy(cur.package_id, cur.target, cur.feature) = {})]_vars

\* C29, amended: the dependency a feature name stands for is resolved in
\* priority order (owner/name names the dependency owner; otherwise a bare
\* name equal to a dependency name names that dependency) and the
\* dependency is enabled; in every case the features the name implies as a
\* key of the package's feature map are enqueued as well, and only a name
\* that stands for no dependency leaves the depending-on maps alone.
C29_PriorityAndImplications ==
    [][EnableFeatureStep =>
        LET p == cur.package_id
            c == DEP_FEATURE(cur.feature)
            names == DOMAIN may_depending_on[p]
            tops == Packages[p].manifest.dependencies
            appended == Appended(req_queue, req_queue')
        IN /\ ImpliedBy(p, cur.target, cur.feature) \subseteq appended
           /\ c.matched =>
                 /\ c.dep \in EnabledAfter(p)
                 /\ (c.dep \in names /\ c.dep \in DOMAIN tops) =>
                       /\ may_depending_on[p][c.dep]
                             \in RecordedAfter("depending_on", p, cur.target)
                       /\ \E t \in TargetPlatform :
                             EnableFeatureReq(may_depending_on[p][c.dep], t,
                                              c.dep_feature) \in appended
           /\ (~c.matched /\ cur.feature \in names) =>
                 /\ cur.feature \in EnabledAfter(p)
                 /\ cur.feature \in DOMAIN tops =>
                       may_depending_on[p][cur.feature]
                          \in RecordedAfter("depending_on", p, cur.target)
           /\ ~NamesDependency(p, cur.feature) =>
                 /\ cur.feature \in EnabledAfter(p)
                 /\ depending_on_state' = depending_on_state
                 /\ appended = ImpliedBy(p, cur.target, cur.feature)]_vars

\* A was requested with the feature b alone; b names the optional
\* dependency B and is also a key of A's feature map that implies x: the
\* edge to B is recorded and x is enabled
C29_Witness ==
    /\ pc = "loop"
    /\ "A" \in DOMAIN features_enabled
    /\ TheRequest.package_id = "A"
    /\ TheRequest.features = <<"b">>
    /\ "b" \in DOMAIN may_depending_on["A"]
    /\ Packages["A"].manifest.features["b"] = <<"x">>
    /\ EnableFeatureReq("A", "Host", "b") \in handled
    /\ "B" \in Recorded("depending_on", "A", "Host")
    /\ {"b", "x"} \subseteq features_enabled["A"]

\* `name` is a key of a DepSpecMap of p, and no spec of p under that name is
\* marked optional
NamesNonOptionalOnly(p, name) ==
    /\ \E kind \in MapKinds : \E specs \in SpecMaps(p, kind) : name \in DOMAIN specs
    /\ \A kind \in MapKinds : \A specs \in SpecMaps(p, kind) :
          name \in DOMAIN specs => ~specs[name].optional

\* C30: the EnableFeature handler run on a bare feature name that is the
\* name of a non-optional dependency of p adds no depending-on edge to that
\* dependency and enqueues no request for it.
C30_NonOptionalNameIgnored ==
    [][EnableFeatureStep =>
        LET p == cur.package_id
        IN (/\ ~DEP_FEATURE(cur.feature).matched
            /\ cur.feature \in DOMAIN may_depending_on[p]
            /\ NamesNonOptionalOnly(p, cur.feature))
           => LET d == may_depending_on[p][cur.feature]
              IN /\ \A kind \in MapKinds : d \notin AddedEdges(kind, p)
                 /\ \A r \in Appended(req_queue, req_queue') : r.package_id # d]_vars

\* A was requested with the feature c, the name of its non-optional
\* dependency C: the handler recorded C in A's Build set and enabled C in
\* the Build role
C30_NonOptionalNameActivated ==
    /\ pc = "loop"
    /\ TheRequest.package_id = "A"
    /\ TheRequest.features = <<"c">>
    /\ ~Packages["A"].manifest.dependencies["c"].optional
    /\ EnableFeatureReq("A", "Host", "c") \in handled
    /\ "C" \in Recorded("depending_on", "A", "Build")
    /\ <<"C", "Build">> \in spawned

\* the DepSpecMaps of p for `kind` in the blocks that apply for the role
\* when the request is processed: the top level of the manifest, the block
\* keyed by the config string of the role's platform, and the blocks whose
\* predicate holds
ApplyingSpecMaps(p, kind, target) ==
    {Packages[p].manifest[SpecField(kind)]}
    \cup { Packages[p].manifest.target[k][SpecField(kind)] :
             k \in { k \in DOMAIN Packages[p].manifest.target :
                       \/ k = PlatformOf(target).config
                       \/ k \in PredicateKeys(p, target) /\ PredicateHolds(k, p, target) } }

\* the step handles EnableFeature(p, role, "owner/name") with owner a
\* resolved dependency of p that has a spec, in a map of one of `kinds`, in
\* a block that applies
CrossFeatureStep(kinds) ==
    /\ EnableFeatureStep
    /\ DEP_FEATURE(cur.feature).matched
    /\ DEP_FEATURE(cur.feature).dep \in DOMAIN may_depending_on[cur.package_id]
    /\ \E kind \in kinds : \E specs \in ApplyingSpecMaps(cur.package_id, kind, cur.target) :
          DEP_FEATURE(cur.feature).dep \in DOMAIN specs

\* the step leaves owner in p's enabled-feature set and enqueues
\* EnableFeature(d, role', name) for the package d that owner resolves to
CrossFeaturePropagated ==
    LET p == cur.package_id
        c == DEP_FEATURE(cur.feature)
    IN /\ c.dep \in EnabledAfter(p)
       /\ \E t \in TargetPlatform :
             EnableFeatureReq(may_depending_on[p][c.dep], t, c.dep_feature)
                \in Appended(req_queue, req_queue')

\* resolve has returned, and for every handled EnableFeature(p, role,
\* "owner/name") with owner a resolved dependency of p that has a spec at
\* the top level of p's manifest, in a map of one of `kinds`, owner is
\* enabled for p and name is enabled for the package owner resolves to
CrossFeatureEnabledAtReturn(kinds) ==
    result = "ok" =>
        \A r \in handled :
            LET p == r.package_id
                c == DEP_FEATURE(r.feature)
            IN (/\ r.kind = "EnableFeature"
                /\ p \in DOMAIN Packages
                /\ c.matched
                /\ c.dep \in DOMAIN may_depending_on[p]
                /\ \E kind \in kinds : c.dep \in DOMAIN Packages[p].manifest[SpecField(kind)])
               => /\ p \in DOMAIN features_enabled
                  /\ c.dep \in features_enabled[p]
                  /\ may_depending_on[p][c.dep] \in DOMAIN features_enabled
                  /\ c.dep_feature \in features_enabled[may_depending_on[p][c.dep]]

\* C31: processing EnableFeature(p, role, "owner/name"), where owner is a
\* dependency of p with a dependency spec (normal, build or dev) in a block
\* that applies, records owner in p's enabled-feature set and enqueues
\* EnableFeature for `name` on the dependency package, and `name` is in the
\* enabled-feature set of that package when resolve returns.
C31_CrossFeatureEnabled ==
    /\ [][CrossFeatureStep(MapKinds) => CrossFeaturePropagated]_vars
    /\ []CrossFeatureEnabledAtReturn(MapKinds)

\* C31 for the specs of the normal and build maps, the maps the handler
\* walks
C31_CrossFeatureEnabledForWalkedMaps ==
    /\ [][CrossFeatureStep({"depending_on", "build_depending_on"}) => CrossFeaturePropagated]_vars
    /\ []CrossFeatureEnabledAtReturn({"depending_on", "build_depending_on"})

\* A was requested with its dev dependencies and the feature m/d; m is a
\* dev dependency of A and in no other block that applies: the run returned
\* with the dev edge to M recorded, m enabled for A and d not enabled for M
C31_DevDependencyFeatureDropped ==
    /\ result = "ok"
    /\ TheRequest.package_id = "A"
    /\ TheRequest.use_dev_deps
    /\ TheRequest.features = <<"m/d">>
    /\ "m" \in DOMAIN Packages["A"].manifest.dev_dependencies
    /\ "M" \in Recorded("dev_depending_on", "A", "Host")
    /\ "m" \in features_enabled["A"]
    /\ "d" \notin features_enabled["M"]

\* A was requested with the feature b/y, b being an optional dependency of
\* A: the run returned with b enabled for A and y enabled for B
C31_CrossFeatureReached ==
    /\ result = "ok"
    /\ {"A", "B"} \subseteq DOMAIN features_enabled
    /\ TheRequest.package_id = "A"
    /\ TheRequest.features = <<"b/y">>
    /\ EnableFeatureReq("A", "Host", "b/y") \in handled
    /\ "b" \in features_enabled["A"]
    /\ "y" \in features_enabled["B"]

\* the dependency name the feature of the request stands for: the owner of
\* owner/name, or the bare name
NamedDependency(feature) ==
    IF DEP_FEATURE(feature).matched THEN DEP_FEATURE(feature).dep ELSE feature

\* the EnableFeature requests that a spec with target d asks for in role t:
\* "default", the listed features, and the name of an owner/name request
SpecFeatureRequests(spec, d, feature, t) ==
    (IF spec.default_features THEN {EnableFeatureReq(d, t, "default")} ELSE {})
    \cup { EnableFeatureReq(d, t, f) : f \in SeqToSet(spec.features) }
    \cup (IF DEP_FEATURE(feature).matched
          THEN {EnableFeatureReq(d, t, DEP_FEATURE(feature).dep_feature)}
          ELSE {})

\* the optional specs, in the normal or the build map of a block that
\* applies, of the dependency that the EnableFeature request being handled
\* stands for, each with the kind of its map
ActivatedOptionalSpecs ==
    { ks \in UNION { { <<kind, specs>> :
                         specs \in ApplyingSpecMaps(cur.package_id, kind, cur.target) } :
                     kind \in {"depending_on", "build_depending_on"} } :
        /\ NamedDependency(cur.feature) \in DOMAIN ks[2]
        /\ ks[2][NamedDependency(cur.feature)].optional }

\* the role a dependency d reached over a map of `kind` is enabled in, from
\* role t of the requester: Build for a build dependency and for a
\* procedural macro
EffectiveRole(kind, d, t) ==
    IF kind = "build_depending_on" \/ IsProcMacro(d) THEN "Build" ELSE t

\* the step handles an EnableFeature request that stands for a resolved
\* dependency of its package
ActivationStep ==
    /\ EnableFeatureStep
    /\ NamedDependency(cur.feature) \in DOMAIN may_depending_on[cur.package_id]

\* C32, as stated: when EnableFeature activates an optional dependency d of
\* p from role r, d is recorded in p's sets for r and for Build, and the
\* default, listed and cross-package feature requests of the spec are
\* enqueued for d in role r and in role Build.
C32_BothRolesAsRequested ==
    [][ActivationStep =>
        LET p == cur.package_id
            name == NamedDependency(cur.feature)
            d == may_depending_on[p][name]
        IN \A ks \in ActivatedOptionalSpecs :
              /\ d \in RecordedAfter(ks[1], p, cur.target)
              /\ d \in RecordedAfter(ks[1], p, "Build")
              /\ \A t \in {cur.target, "Build"} :
                    SpecFeatureRequests(ks[2][name], d, cur.feature, t)
                       \subseteq Appended(req_queue, req_queue')]_vars

\* C32, amended: d is recorded in p's sets for r and for Build, and the
\* feature requests are enqueued for d in the effective role of d from r
\* and from Build, which is Build in both cases when d is a procedural
\* macro or a build dependency.
C32_BothRolesShifted ==
    [][ActivationStep =>
        LET p == cur.package_id
            name == NamedDependency(cur.feature)
            d == may_depending_on[p][name]
        IN \A ks \in ActivatedOptionalSpecs :
              /\ d \in RecordedAfter(ks[1], p, cur.target)
              /\ d \in RecordedAfter(ks[1], p, "Build")
              /\ \A t \in {cur.target, "Build"} :
                    SpecFeatureRequests(ks[2][name], d, cur.feature,
                                        EffectiveRole(ks[1], d, t))
                       \subseteq Appended(req_queue, req_queue')
              /\ \A r \in Appended(req_queue, req_queue') :
                    r.package_id = d =>
                        r.target \in { EffectiveRole(ks[1], d, t) :
                                         t \in {cur.target, "Build"} }]_vars

\* A was requested from Host with the feature b/y; its optional dependency
\* B is not a procedural macro: B is recorded in A's Host and Build sets and
\* default, x and y are requested for B in both roles
C32_Witness ==
    /\ pc = "loop"
    /\ cur = NoRequest
    /\ request.initial_requests # <<>>
    /\ TheRequest.package_id = "A"
    /\ TheRequest.features = <<"b/y">>
    /\ "b" \in DOMAIN Packages["A"].manifest.dependencies
    /\ ~IsProcMacro("B")
    /\ EnableFeatureReq("A", "Host", "b/y") \in handled
    /\ {"B"} \subseteq Recorded("depending_on", "A", "Host") \cap Recorded("depending_on", "A", "Build")
    /\ { EnableFeatureReq("B", t, f) : t \in TargetPlatform, f \in {"default", "x", "y"} }
          \subseteq SeqToSet(req_queue) \cup handled

\* the same request with B a procedural macro: B is recorded in both sets
\* of A, and no feature of B is requested for the Host role
C32_ProcMacroRequestedForBuildOnly ==
    /\ pc = "loop"
    /\ cur = NoRequest
    /\ request.initial_requests # <<>>
    /\ TheRequest.package_id = "A"
    /\ TheRequest.features = <<"b/y">>
    /\ "b" \in DOMAIN Packages["A"].manifest.dependencies
    /\ IsProcMacro("B")
    /\ EnableFeatureReq("A", "Host", "b/y") \in handled
    /\ {"B"} \subseteq Recorded("depending_on", "A", "Host") \cap Recorded("depending_on", "A", "Build")
    /\ \A r \in SeqToSet(req_queue) \cup handled : r.package_id = "B" => r.target = "Build"

\* no key of p's feature map is the name of a resolved dependency of p
NoFeatureNamedAsDependency(p) ==
    DOMAIN Packages[p].manifest.features \cap DOMAIN may_depending_on[p] = {}

\* C33: when resolve returns, for every package p of which no feature-group
\* name is a dependency name, and every key f of p's feature map for which
\* an EnableFeature request was processed, the resolved name of every
\* feature that f implies is in p's enabled-feature set.
C33_ClosedUnderImplication ==
    result = "ok" =>
        \A r \in handled :
            (/\ r.kind = "EnableFeature"
             /\ r.package_id \in DOMAIN Packages
             /\ NoFeatureNamedAsDependency(r.package_id)
             /\ r.feature \in DOMAIN Packages[r.package_id].manifest.features)
            => /\ r.package_id \in DOMAIN features_enabled
               /\ \A g \in SeqToSet(Packages[r.package_id].manifest.features[r.feature]) :
                     NamedDependency(g) \in features_enabled[r.package_id]

\* A was requested with the features full, which implies b, and b/y; B has
\* default and y, which both imply x: the run returned with full and b
\* enabled for A and with default, y and x enabled for B
C33_Witness ==
    /\ result = "ok"
    /\ request.initial_requests # <<>>
    /\ TheRequest.package_id = "A"
    /\ TheRequest.features = <<"full", "b/y">>
    /\ Packages["A"].manifest.features["full"] = <<"b">>
    /\ Packages["B"].manifest.features["default"] = <<"x">>
    /\ Packages["B"].manifest.features["y"] = <<"x">>
    /\ {EnableFeatureReq("A", "Host", "full"), EnableFeatureReq("B", "Host", "default"), EnableFeatureReq("B", "Host", "y")} \subseteq handled
    /\ {"full", "b"} \subseteq features_enabled["A"]
    /\ {"default", "x", "y"} \subseteq features_enabled["B"]

\* the packages that a spec of p in a map of `kind`, at top level or in a
\* target block, resolves to
SpecTargets(p, kind) ==
    { may_depending_on[p][n] :
        n \in { m \in DOMAIN may_depending_on[p] :
                  \E specs \in SpecMaps(p, kind) : m \in DOMAIN specs } }

\* C34: a handler that adds an edge from p to d to the build depending-on
\* map enqueues EnablePackage(d, Build), whatever the role of p is; and
\* when d is a dependency of p through build-dependencies maps alone, every
\* request the handler enqueues for d has the Build role.
C34_BuildDependenciesInBuildRole ==
    [][(HandlerStep /\ cur.package_id \in DOMAIN Packages) =>
        LET p == cur.package_id
            appended == Appended(req_queue, req_queue')
        IN /\ \A d \in AddedEdges("build_depending_on", p) :
                 EnablePackageReq(d, "Build", FALSE) \in appended
           /\ \A r \in appended :
                 (/\ r.package_id \in SpecTargets(p, "build_depending_on")
                  /\ r.package_id \notin SpecTargets(p, "depending_on")
                  /\ r.package_id \notin SpecTargets(p, "dev_depending_on")
                  /\ r.package_id # p)
                 => r.target = "Build"]_vars

\* A, whose build dependency c is no procedural macro, was enabled in the
\* Host role and in the Build role: C is recorded as a build dependency in
\* both sets of A and was enabled in the Build role
C34_Witness ==
    /\ pc = "loop"
    /\ {EnablePackageReq("A", "Host", FALSE), EnablePackageReq("A", "Build", FALSE)} \subseteq handled
    /\ "c" \in DOMAIN Packages["A"].manifest.build_dependencies
    /\ ~IsProcMacro("C")
    /\ "C" \in Recorded("build_depending_on", "A", "Host")
    /\ "C" \in Recorded("build_depending_on", "A", "Build")
    /\ <<"C", "Build">> \in spawned

\* the package ids that the resolved dependency list of p associates with a
\* dependency name
ResolvedDependencies(p) ==
    { Packages[p].dependencies[i].package_id :
        i \in { j \in 1..Len(Packages[p].dependencies) :
                  Packages[p].dependencies[j].toml_names # <<>> } }

\* C35: in every state of resolve, every edge (p, d) recorded in the
\* normal, build or dev depending-on map, in either role, has p in the
\* package set and d among the package ids that p's resolved dependency
\* list associates with a dependency name.
C35_EdgesSound ==
    \A kind \in MapKinds : \A p \in DOMAIN depending_on_state[kind] :
        /\ p \in DOMAIN Packages
        /\ \A t \in TargetPlatform :
              Recorded(kind, p, t) \subseteq ResolvedDependencies(p)

\* the run returned with edges in all three maps: A to its optional
\* dependency B and to its dev dependency M, B to its dependency C and to
\* its build dependency M
C35_Witness ==
    /\ result = "ok"
    /\ "B" \in Recorded("depending_on", "A", "Host")
    /\ "M" \in Recorded("dev_depending_on", "A", "Host")
    /\ "C" \in Recorded("depending_on", "B", "Host")
    /\ "M" \in Recorded("build_depending_on", "B", "Host")
    /\ "B" \in Recorded("depending_on", "A", "Build")

\* nothing is left in rpkgs for simplify_optionality to change: no item
\* that is not a dev edge is Optional with n_root_pkgs requiring roots,
\* every dev edge is Required, and the items of a package that are not dev
\* edges are all Required if they are all equal
SimplifiedForm(rpkgs, n_root_pkgs) ==
    /\ \A item \in DevItems(rpkgs) : OptionalityOf(rpkgs, item) = Required
    /\ \A id \in DOMAIN rpkgs :
          /\ \A item \in NonDevItems(rpkgs, id) :
                ~(/\ OptionalityOf(rpkgs, item).tag = "Optional"
                  /\ Cardinality(OptionalityOf(rpkgs, item).required_by_pkgs) = n_root_pkgs)
          /\ (\A i, j \in NonDevItems(rpkgs, id) :
                 OptionalityOf(rpkgs, i) = OptionalityOf(rpkgs, j))
             => \A i \in NonDevItems(rpkgs, id) : OptionalityOf(rpkgs, i) = Required

\* C36: simplify_optionality applied to its own result, with the same
\* number of root packages, returns that result, item for item: the first
\* application leaves nothing that a second one would promote, force or
\* collapse.
C36_SimplifyIdempotent ==
    epc \in {"render", "done"} =>
        /\ simplify_optionality(rpkgs_by_id, Len(root_pkgs)) = rpkgs_by_id
        /\ \A item \in ItemsOf(rpkgs_by_id) :
              OptionalityOf(simplify_optionality(rpkgs_by_id, Len(root_pkgs)), item)
                 = OptionalityOf(rpkgs_by_id, item)
        /\ SimplifiedForm(rpkgs_by_id, Len(root_pkgs))

\* of two roots both require the edge from p to q and only r1 requires the
\* feature x of p: after simplify_optionality the edge is Required by
\* promotion and the feature is still Optional, so the items of p are of
\* both kinds when the function is applied again
C36_Witness ==
    /\ epc = "render"
    /\ Len(root_pkgs) = 2
    /\ {<<"r1", DepUnit("p", "q")>>, <<"r2", DepUnit("p", "q")>>} \subseteq marked
    /\ OptionalityOf(rpkgs_by_id, ItemQofP) = Required
    /\ OptionalityOf(rpkgs_by_id, ItemXofP).tag = "Optional"
    /\ OptionalityOf(rpkgs_by_id, ItemXofP).required_by_pkgs = {"r1"}
    /\ \E item \in DevItems(rpkgs_by_id) : OptionalityOf(rpkgs_by_id, item) = Required

\* ---------------------------------------------------------------------
\* write_to_file (main.rs 70-171): the version check of an existing
\* target file, the overwrite question, and the generation into a
\* temporary file that is then moved or copied to the target.
\* Strings the code inspects character by character are sequences of
\* one-character strings.
\* ---------------------------------------------------------------------

VERSION_ATTRIBUTE_NAME == <<"c", "a", "r", "g", "o", "2", "n", "i", "x", "V", "e", "r", "s", "i", "o", "n">>

Quote == "\""

Yes == <<"y", "e", "s">>

\* the White_Space characters of the replies and lines of the model
Whitespace == {" ", "\t", "\n", "\r"}

Digits == {"0", "1", "2", "3", "4", "5", "6", "7", "8", "9"}

DigitValue(c) == CASE c = "0" -> 0 [] c = "1" -> 1 [] c = "2" -> 2 [] c = "3" -> 3 [] c = "4" -> 4 [] c = "5" -> 5 [] c = "6" -> 6 [] c = "7" -> 7 [] c = "8" -> 8 [] c = "9" -> 9

RECURSIVE trim_start(_)
\* str::trim_start
trim_start(s) == IF s # <<>> /\ Head(s) \in Whitespace THEN trim_start(Tail(s)) ELSE s

RECURSIVE trim_end(_)
\* str::trim_end
trim_end(s) == IF s # <<>> /\ s[Len(s)] \in Whitespace THEN trim_end(SubSeq(s, 1, Len(s) - 1)) ELSE s

\* str::trim
trim(s) == trim_end(trim_start(s))

\* str::starts_with
starts_with(s, prefix) == Len(s) >= Len(prefix) /\ SubSeq(s, 1, Len(prefix)) = prefix

\* str::find(ch): the position of the first ch, 0 for None
str_find(s, ch) ==
    LET hits == { i \in 1..Len(s) : s[i] = ch }
    IN  IF hits = {} THEN 0 ELSE CHOOSE i \in hits : \A j \in hits : i <= j

\* str::rfind(ch): the position of the last ch, 0 for None
str_rfind(s, ch) ==
    LET hits == { i \in 1..Len(s) : s[i] = ch }
    IN  IF hits = {} THEN 0 ELSE CHOOSE i \in hits : \A j \in hits : j <= i

RECURSIVE Split(_, _)
\* the parts of s between the occurrences of ch
Split(s, ch) ==
    LET i == str_find(s, ch)
    IN  IF i = 0 THEN <<s>>
        ELSE <<SubSeq(s, 1, i - 1)>> \o Split(SubSeq(s, i + 1, Len(s)), ch)

\* a numeric identifier of a version: digits, no leading zero
IsNumericIdentifier(s) ==
    /\ s # <<>>
    /\ \A i \in 1..Len(s) : s[i] \in Digits
    /\ Len(s) > 1 => s[1] # "0"

RECURSIVE NumberValue(_)
NumberValue(s) ==
    IF s = <<>> THEN 0
    ELSE 10 * NumberValue(SubSeq(s, 1, Len(s) - 1)) + DigitValue(s[Len(s)])

\* Version::parse(text).ok() on texts without a pre-release or build part:
\* three numeric identifiers separated by dots
VersionParse(text) ==
    LET parts == Split(text, ".")
    IN  IF Len(parts) = 3 /\ \A i \in 1..3 : IsNumericIdentifier(parts[i])
        THEN [ok |-> TRUE,
              version |-> [major |-> NumberValue(parts[1]),
                           minor |-> NumberValue(parts[2]),
                           patch |-> NumberValue(parts[3])]]
        ELSE [ok |-> FALSE, version |-> NoVersion]

\* read_version_attribute(path): the first line that starts with the
\* attribute name after trim_start, its text between the first and the last
\* double quote.  `&s[i + 1..j]` panics when the line holds one double quote
\* only (i = j, so the range starts after its end).
read_version_attribute(file) ==
    IF ~file.readable THEN [outcome |-> "open_error", version |-> NoVersion]
    ELSE
      LET found == { n \in 1..Len(file.lines) :
                       starts_with(trim_start(file.lines[n]), VERSION_ATTRIBUTE_NAME) }
      IN  IF found = {} THEN [outcome |-> "not_found", version |-> NoVersion]
          ELSE
            LET s == file.lines[CHOOSE n \in found : \A m \in found : n <= m]
                i == str_find(s, Quote)
                j == str_rfind(s, Quote)
                parsed == VersionParse(SubSeq(s, i + 1, j - 1))
            IN  IF i = 0 THEN [outcome |-> "not_found", version |-> NoVersion]
                ELSE IF i = j THEN [outcome |-> "panic", version |-> NoVersion]
                ELSE IF parsed.ok THEN [outcome |-> "Ok", version |-> parsed.version]
                ELSE [outcome |-> "not_found", version |-> NoVersion]

\* version_req(path): the requirement ">=major.minor" of the version read
version_req(file) ==
    LET read == read_version_attribute(file)
    IN  [outcome |-> read.outcome,
         req |-> [major |-> read.version.major, minor |-> read.version.minor],
         version |-> read.version]

\* VersionReq::matches for a requirement ">=major.minor"
Matches(req, version) ==
    \/ version.major > req.major
    \/ version.major = req.major /\ version.minor >= req.minor

\* `line.trim() != "yes"` is false
ReplyIsYes_prefix(reply) == starts_with(trim_start(reply), Yes)

ReplyIsYes(reply) == trim(reply) = Yes

\* the `?` operator: go on, or return the error
Try_ignored(ok, next) == next

Try(ok, next) == IF ok THEN next ELSE "done"

\* a line `  cargo2nixVersion = "text";`
AttributeLine(text) == <<" ", " ">> \o VERSION_ATTRIBUTE_NAME \o <<" ", "=", " ", Quote>> \o text \o <<Quote, ";">>

File(lines) == [exists |-> TRUE, readable |-> TRUE, lines |-> lines]

\* version texts found in target files
VersionTexts ==
    { <<"0", ".", "8", ".", "3">>, <<"0", ".", "9", ".", "0">>,
      <<"0", ".", "1", "0", ".", "0">>, <<"1", ".", "0", ".", "2">>,
      <<"0", ".", "9">>, <<"0", ".", "0", "9", ".", "0">>, <<>> }

\* the target files: absent, unreadable, without the attribute, with the
\* attribute and a version text, with a line that only mentions the
\* attribute before it, with an unparseable attribute line before a
\* parseable one, without quotes, with one quote, with a third quote
TargetFiles ==
    { NoFile,
      [exists |-> TRUE, readable |-> FALSE, lines |-> <<>>],
      File(<<>>),
      File(<<<<"{">>>>) }
    \cup { File(<<<<"{">>, AttributeLine(text)>>) : text \in VersionTexts }
    \cup { File(<<<<"#", " ">> \o AttributeLine(<<"9", ".", "9", ".", "9">>),
                  AttributeLine(<<"0", ".", "9", ".", "0">>)>>),
           File(<<AttributeLine(<<"x">>), AttributeLine(<<"0", ".", "9", ".", "0">>)>>),
           File(<<VERSION_ATTRIBUTE_NAME \o <<" ", "=", " ", "0", ".", "9", ".", "0", ";">>>>),
           File(<<VERSION_ATTRIBUTE_NAME \o <<" ", "=", " ", Quote, "0", ".", "9", ".", "0", ";">>>>),
           File(<<AttributeLine(<<"0", ".", "9", ".", "0">>) \o <<" ", "#", " ", Quote>>>>) }

\* versions of the running tool
ToolVersions ==
    { [major |-> 0, minor |-> 9, patch |-> 0],
      [major |-> 0, minor |-> 10, patch |-> 1],
      [major |-> 1, minor |-> 0, patch |-> 0] }

\* what the user types at the question; <<>> is the end of input
Replies ==
    { <<>>, <<"\n">>, Yes, Yes \o <<"\n">>, <<" ">> \o Yes \o <<"\r", "\n">>,
      <<"\t">> \o Yes \o <<" ", "\n">>, <<"y", "\n">>, <<"Y", "E", "S", "\n">>,
      <<"n", "o", "\n">>, Yes \o <<" ", "p", "l", "e", "a", "s", "e", "\n">>,
      <<"y", " ", "e", "s", "\n">> }

\* the lines generate_cargo_nix writes
GeneratedLines == <<<<"#", " ", "g", "e", "n", "e", "r", "a", "t", "e", "d">>>>

\* the file a temporary file becomes at the target path
TempContent(temp) == File(IF temp = "written" THEN GeneratedLines ELSE <<>>)

WriteInit ==
    /\ ResolveOff
    /\ EngineOff
    /\ ConversionOff
    /\ wpc = "start"
    /\ tool_version \in ToolVersions
    /\ old_file \in TargetFiles
    /\ target_file = old_file
    /\ line = <<>>
    /\ temp_file = "none"
    /\ prompted = FALSE
    /\ generated = FALSE
    /\ write_result = "none"

\* `if path.exists()` is false (main.rs 119)
TargetAbsent ==
    /\ wpc = "start"
    /\ ~target_file.exists
    /\ wpc' = "tempfile"
    /\ UNCHANGED <<tool_version, old_file, target_file, line, temp_file, prompted, generated, write_result>>
    /\ UNCHANGED <<resolve_vars, engine_vars, ppc, os_vars, enum_vars, cfg_vars, de_vars>>

\* `version_req(path)?` fails (or the slice in it panics), or the tool's
\* version does not match the requirement (main.rs 119-136)
VersionRejected ==
    /\ wpc = "start"
    /\ target_file.exists
    /\ LET checked == version_req(target_file)
       IN  /\ checked.outcome = "Ok" => ~Matches(checked.req, tool_version)
           /\ write_result' = IF checked.outcome = "Ok" THEN "version_error" ELSE checked.outcome
    /\ wpc' = "done"
    /\ UNCHANGED <<tool_version, old_file, target_file, line, temp_file, prompted, generated>>
    /\ UNCHANGED <<resolve_vars, engine_vars, ppc, os_vars, enum_vars, cfg_vars, de_vars>>

\* the version matches: the question is printed and flushed (main.rs 138-149)
Prompt ==
    /\ wpc = "start"
    /\ target_file.exists
    /\ LET checked == version_req(target_file)
       IN  checked.outcome = "Ok" /\ Matches(checked.req, tool_version)
    /\ prompted' = TRUE
    /\ \E flushed \in BOOLEAN :
          /\ wpc' = Try(flushed, "read_line")
          /\ write_result' = IF flushed THEN write_result ELSE "io_error"
    /\ UNCHANGED <<tool_version, old_file, target_file, line, temp_file, generated>>
    /\ UNCHANGED <<resolve_vars, engine_vars, ppc, os_vars, enum_vars, cfg_vars, de_vars>>

\* `read_line(&mut line)?` and the comparison with "yes" (main.rs 150-155)
ReadLine ==
    /\ wpc = "read_line"
    /\ \E read \in BOOLEAN :
          \E reply \in (IF read THEN Replies ELSE {<<>>}) :
             /\ line' = reply
             /\ wpc' = Try(read, IF ReplyIsYes(reply) THEN "tempfile" ELSE "done")
             /\ write_result' = IF ~read THEN "io_error"
                                ELSE IF ReplyIsYes(reply) THEN write_result
                                ELSE "Ok"
    /\ UNCHANGED <<tool_version, old_file, target_file, temp_file, prompted, generated>>
    /\ UNCHANGED <<resolve_vars, engine_vars, ppc, os_vars, enum_vars, cfg_vars, de_vars>>

\* tempfile::Builder::new().tempfile() (main.rs 158-160)
CreateTemp ==
    /\ wpc = "tempfile"
    /\ \E created \in BOOLEAN :
          /\ temp_file' = IF created THEN "empty" ELSE temp_file
          /\ wpc' = Try(created, "generate")
          /\ write_result' = IF created THEN write_result ELSE "tempfile_error"
    /\ UNCHANGED <<tool_version, old_file, target_file, line, prompted, generated>>
    /\ UNCHANGED <<resolve_vars, engine_vars, ppc, os_vars, enum_vars, cfg_vars, de_vars>>

\* `generate_cargo_nix(&mut temp_file)?` (main.rs 162): a failure may come
\* before or after part of the output was written
Generate ==
    /\ wpc = "generate"
    /\ generated' = TRUE
    /\ \E succeeded \in BOOLEAN :
          /\ temp_file' \in (IF succeeded THEN {"written"} ELSE {"empty", "partial"})
          /\ wpc' = Try(succeeded, "persist")
          /\ write_result' = IF succeeded THEN write_result ELSE "generate_error"
    /\ UNCHANGED <<tool_version, old_file, target_file, line, prompted>>
    /\ UNCHANGED <<resolve_vars, engine_vars, ppc, os_vars, enum_vars, cfg_vars, de_vars>>

\* temp_file.persist(path), and keep() and std::fs::copy when the rename
\* fails (main.rs 164-170); a failed copy may have truncated the target
Persist ==
    /\ wpc = "persist"
    /\ \E outcome \in {"renamed", "copied", "keep_error", "copy_error"} :
          /\ target_file' \in
               CASE outcome \in {"renamed", "copied"} -> {TempContent(temp_file)}
                 [] outcome = "keep_error" -> {target_file}
                 [] outcome = "copy_error" -> {target_file, File(<<>>)}
          /\ write_result' = IF outcome \in {"renamed", "copied"} THEN "Ok" ELSE outcome
    /\ wpc' = "done"
    /\ UNCHANGED <<tool_version, old_file, line, temp_file, prompted, generated>>
    /\ UNCHANGED <<resolve_vars, engine_vars, ppc, os_vars, enum_vars, cfg_vars, de_vars>>

WriteNext ==
    \/ TargetAbsent
    \/ VersionRejected
    \/ Prompt
    \/ ReadLine
    \/ CreateTemp
    \/ Generate
    \/ Persist

WriteSpec == WriteInit /\ [][WriteNext]_vars

\* every variable of write_to_file keeps its type
WriteTypeOK ==
    /\ wpc \in {"start", "read_line", "tempfile", "generate", "persist", "done"}
    /\ temp_file \in {"none", "empty", "partial", "written"}
    /\ prompted \in BOOLEAN
    /\ generated \in BOOLEAN
    /\ write_result \in {"none", "Ok", "open_error", "not_found", "panic", "version_error", "io_error", "tempfile_error", "generate_error", "keep_error", "copy_error"}

\* ---------------------------------------------------------------------
\* Properties of write_to_file
\* ---------------------------------------------------------------------

\* the reply is "yes" between two runs of whitespace
StripsToYes(reply) ==
    \E i \in 1..Len(reply) :
       /\ i + 2 <= Len(reply)
       /\ SubSeq(reply, i, i + 2) = Yes
       /\ \A k \in 1..Len(reply) : (k < i \/ k > i + 2) => reply[k] \in Whitespace

\* the results that are an Err(..) returned by write_to_file
WriteErrors == {"open_error", "not_found", "version_error", "io_error", "tempfile_error", "generate_error", "keep_error", "copy_error"}

\* the target file that existed was changed only when the reply read was
\* "yes" with whitespace around it
ReplacedOnlyAfterYes ==
    (old_file.exists /\ target_file # old_file) => StripsToYes(line)

\* a reply that was read and is not "yes" with whitespace around it ends
\* the call with Ok, nothing generated, no temporary file, the file as it was
OtherReplyAborts ==
    (wpc = "read_line" /\ write_result' # "io_error" /\ ~StripsToYes(line'))
        => /\ wpc' = "done"
           /\ write_result' = "Ok"
           /\ ~generated'
           /\ temp_file' = "none"
           /\ target_file' = old_file

\* C37: write_to_file replaces an existing target file only after the
\* user's reply, trimmed of surrounding whitespace, is exactly "yes"; for any
\* other reply it returns Ok without generating output and leaves the file
\* unchanged.
C37_OverwriteOnlyAfterYes == []ReplacedOnlyAfterYes /\ [][OtherReplyAborts]_vars

\* an existing file was replaced by the generated output after a reply that
\* is "yes" with whitespace around it
C37_Witness ==
    /\ wpc = "done"
    /\ write_result = "Ok"
    /\ old_file.exists
    /\ target_file = File(GeneratedLines)
    /\ line = <<" ">> \o Yes \o <<"\r", "\n">>

\* a reply that only starts with "yes" ended the call without a change
C37_AbortedOnOtherReply ==
    /\ wpc = "done"
    /\ write_result = "Ok"
    /\ prompted
    /\ starts_with(line, Yes) /\ line # Yes
    /\ ~generated
    /\ target_file = old_file

\* the lines of the file that name the attribute and hold a version between
\* their first and last double quote
ParseableAttributeLines(file) ==
    { n \in 1..Len(file.lines) :
        /\ starts_with(trim_start(file.lines[n]), VERSION_ATTRIBUTE_NAME)
        /\ \E i, j \in 1..Len(file.lines[n]) :
              /\ i < j
              /\ file.lines[n][i] = Quote
              /\ file.lines[n][j] = Quote
              /\ \A k \in 1..Len(file.lines[n]) :
                    file.lines[n][k] = Quote => i <= k /\ k <= j
              /\ VersionParse(SubSeq(file.lines[n], i + 1, j - 1)).ok }

\* the version of the first such line
RecordedVersion(file) ==
    LET ns == ParseableAttributeLines(file)
        n == CHOOSE n \in ns : \A m \in ns : n <= m
        s == file.lines[n]
    IN  VersionParse(SubSeq(s, str_find(s, Quote) + 1, str_rfind(s, Quote) - 1)).version

\* the file exists and has no parseable attribute, or the tool's version is
\* below the major.minor of the version recorded in it
MustBeRejected ==
    /\ old_file.exists
    /\ \/ ~old_file.readable
       \/ ParseableAttributeLines(old_file) = {}
       \/ LET recorded == RecordedVersion(old_file)
          IN  \/ tool_version.major < recorded.major
              \/ tool_version.major = recorded.major /\ tool_version.minor < recorded.minor

\* C38: when the target file exists and has no parseable cargo2nixVersion
\* attribute, or the running tool's version does not satisfy
\* ">= major.minor" of the version recorded in the file, write_to_file
\* returns an error before prompting and leaves the file unchanged.
C38_RejectedWithError ==
    (wpc # "start" /\ MustBeRejected)
        => /\ wpc = "done"
           /\ write_result \in WriteErrors
           /\ ~prompted
           /\ target_file = old_file

\* the same, with the panic of the slice counted as a way of not going on
C38_RejectedWithoutPrompt ==
    (wpc # "start" /\ MustBeRejected)
        => /\ wpc = "done"
           /\ write_result \in WriteErrors \cup {"panic"}
           /\ ~prompted
           /\ ~generated
           /\ target_file = old_file

\* the attribute line of the file holds one double quote and the call
\* ended in the panic of `&s[i + 1..j]`
C38_PanicOnSingleQuote ==
    /\ wpc = "done"
    /\ write_result = "panic"
    /\ old_file.exists
    /\ ParseableAttributeLines(old_file) = {}

\* the file records a version newer than the tool and the call returned
\* the version error
C38_NewerFileRejected ==
    /\ wpc = "done"
    /\ write_result = "version_error"
    /\ ParseableAttributeLines(old_file) # {}
    /\ RecordedVersion(old_file).minor > tool_version.minor
    /\ ~prompted
    /\ target_file = old_file

\* after a failed generation the target is as it was and the error is
\* what the call returns
FailedGenerationLeavesTarget ==
    (generated /\ temp_file # "written")
        => /\ target_file = old_file
           /\ wpc = "done"
           /\ write_result = "generate_error"

\* the target changes only from a temporary file the generation completed
TargetChangesAfterGeneration ==
    target_file' # target_file => (generated /\ temp_file = "written")

\* C39: if generation fails, write_to_file returns the error and the target
\* path is left exactly as it was (absent, or with its old content): the
\* output goes to a temporary file that is moved or copied to the target
\* only after generation succeeded.
C39_FailedGenerationKeepsTarget == []FailedGenerationLeavesTarget /\ [][TargetChangesAfterGeneration]_vars

\* generation failed after part of the output was written, over an existing
\* file the user agreed to replace; the file is as it was
C39_Witness ==
    /\ wpc = "done"
    /\ write_result = "generate_error"
    /\ temp_file = "partial"
    /\ old_file.exists
    /\ StripsToYes(line)
    /\ target_file = old_file

====
